---- MODULE Spec2Model ----
(***************************************************************************)
(* Cedrus video engine driver (drivers/staging/media/sunxi/cedrus).        *)
(*                                                                         *)
(* Spec       : the job pipeline of the device: dispatch (job_run), the    *)
(*              hardware, the interrupt handler, the watchdog work and the *)
(*              release of a session.                                      *)
(* FairSpec   : the job pipeline of sessions that stay open, under fair    *)
(*              interrupt delivery, watchdog and hardware.                 *)
(* StreamSpec : start_streaming / stop_streaming on a session's queues.    *)
(* EngineSpec : the engine operation wrappers of cedrus_engine.c.          *)
(* PrepareSpec: job_prepare of the decoders over every control set.        *)
(* FormatSpec : set-format, buffer allocation and streaming of a decoder    *)
(*              session, and the engine they select.                       *)
(* EncSpec    : the H.264 encoder: control writes, job_prepare, the        *)
(*              headers of job_configure, job_finish.                      *)
(* BitsSpec   : the bit writer of the H.264 encoder (ue, se, bit, align).  *)
(* DpbSpec    : the frame list of the H.264 decoder over successive jobs.  *)
(* ProfileSpec: the profile and entropy-mode controls of the H.264         *)
(*              encoder, before and while streaming, over the streams of   *)
(*              a session.                                                 *)
(* H265Spec   : job_configure of the H.265 decoder over slice inputs.      *)
(* HdrSpec    : the header emission of the H.264 encoder, statement by     *)
(*              statement, with control writes in between.                 *)
(* SelSpec    : the crop rectangle of the encoder's picture format and the *)
(*              cropping of the SPS.                                       *)
(* SlotSpec   : the frame list of the H.264 decoder with a full DPB.       *)
(* ReleaseSpec: the job pipeline with jobs dispatched while their session  *)
(*              is released.                                               *)
(***************************************************************************)
EXTENDS Integers, Sequences, FiniteSets, TLC

NULL == "NULL"

\* Sessions: two on the decoder, one on the encoder.
Contexts == {"d1", "d2", "e1"}

Procs == {"dec", "enc"}

ProcOf(c) == IF c = "e1" THEN "enc" ELSE "dec"

\* Engine descriptors with their operation tables in the source.
DecEngines == {"mpeg2", "h264", "h265"}

EncEngines == {"h264enc"}

Engines == DecEngines \cup EncEngines

ProcEngines(p) == IF p = "enc" THEN EncEngines ELSE DecEngines

\* enum cedrus_irq_status
CEDRUS_IRQ_NONE == 0

CEDRUS_IRQ_ERROR == 1

CEDRUS_IRQ_SUCCESS == 2

IrqStatuses == {CEDRUS_IRQ_NONE, CEDRUS_IRQ_ERROR, CEDRUS_IRQ_SUCCESS}

\* Bounds of the model.
MaxJobs == 2

MaxSpurious == 1

MaxStreamCalls == 4

MaxPrepJobs == 2

MaxBufs == 2

MaxGop == 4

MaxCtrlWrites == 1
MaxProfileWrites == 3

MaxHdrJobs == 2

MaxHdrWrites == 2

\* Stream starts of one encoder session.
MaxStreamStarts == 2

MaxEncJobs == 5

NearWrap == 2

PictureBytes == 99

BitLengths == {8, 20}

MaxBits == 12

MaxUe == 16

MaxSe == 4

\* H.264 decoding: picture buffers and jobs of a session.
MaxPics == 2
MaxDecJobs == 3

SlotPics == 18

MaxSlotJobs == 20

MaxSlotDeviations == 2

\* H.265 decoding: data_byte_offset and entry point counts of a slice.
MaxOffset == 6
MaxEntryPoints == 2

JobIds == 1..MaxJobs

VARIABLES
    \* ---- job pipeline ----
    engine,      \* ctx->engine per session
    open,        \* sessions not yet released
    curr,        \* v4l2_m2m_get_curr_priv(): session of the running m2m job
    pc,          \* position inside cedrus_context_job_run: "idle" | "trigger"
    job,         \* ctx->job per session
    cur_req,     \* the source buffer of the current job carries a request
    ctx_active,  \* proc->ctx_active per processing unit
    wdog,        \* cedrus_dev->watchdog_work: idle | pending | running | rearmed
    irq_en,      \* interrupt enable bits, per engine register block
    irq_stat,    \* interrupt status bits, per engine register block
    hw_busy,     \* engine the hardware is working for, or NULL
    njobs,       \* jobs handed to device_run so far
    nspur,       \* interrupts raised with no status bit set so far
    finished,    \* per job: states reported to v4l2_m2m_buf_done_and_job_finish
    trace,       \* events of the job dispatched last, in program order
    last         \* what the last handler did (observation only)

VARIABLES
    \* ---- streaming of one session ----
    s_engine,    \* ctx->engine of the session
    engine_ctx,  \* ctx->engine_ctx: NullPtr or the address kzalloc returned
    engine_job,  \* ctx->engine_job: NullPtr or the address kzalloc returned
    engine_dma,  \* the DMA buffers of the engine context are allocated
    heap,        \* kzalloc/kfree bookkeeping
    pm,          \* runtime PM usage of the device
    fault,       \* a callback dereferenced a pointer that holds no allocation
    streaming,   \* per queue: vb2 has started it
    s_hist       \* the start/stop calls made so far, in order

VARIABLES
    \* ---- one call of an engine operation wrapper ----
    e_desc,      \* ctx->engine as the wrapper sees it
    e_op,        \* the wrapper called last
    e_cb,        \* what the codec callback would return
    e_ret,       \* what the wrapper returned
    e_called     \* whether the codec callback ran

VARIABLES
    \* ---- controls of one decoder session ----
    p_engine,    \* ctx->engine of the session
    p_cur,       \* per control of the handler: its current payload
    p_req,       \* controls carried by the request of the job run last
    p_job,       \* ctx->engine_job: the control pointers job_prepare cached
    p_ret,       \* status of job_run after job_configure
    p_state,     \* what became of the job
    p_trace,     \* calls made by job_run, in order
    p_n          \* jobs run so far

VARIABLES
    \* ---- formats and buffers of one decoder session ----
    f_engine,    \* ctx->engine
    f_pixfmt,    \* pixelformat of ctx->v4l2.format_coded
    f_bufs,      \* per queue: buffers allocated (vb2_is_busy when > 0)
    f_ebuf,      \* per picture buffer: engine that set up its engine_buffer
    f_stream,    \* per queue: vb2_is_streaming
    f_job,       \* a job of the session is in flight
    f_confused,  \* an engine cleaned up the buffer of another engine
    f_mv,        \* per picture buffer: its MV column buffer is allocated
    f_mvlog,     \* history: allocations per buffer, its last cleanup, the job
    f_last       \* the call made last and its result

jobVars == <<engine, open, curr, pc, job, cur_req, ctx_active, wdog, irq_en,
             irq_stat, hw_busy, njobs, nspur, finished, trace, last>>

streamVars == <<s_engine, engine_ctx, engine_job, engine_dma, heap, pm, fault,
                streaming, s_hist>>

engineVars == <<e_desc, e_op, e_cb, e_ret, e_called>>

prepareVars == <<p_engine, p_cur, p_req, p_job, p_ret, p_state, p_trace, p_n>>

VARIABLES
    enc_ctrl,     \* encoder session: the values the V4L2 controls hold
    enc_ctx,      \* struct cedrus_enc_h264_context: the values in effect
    enc_state,    \* struct cedrus_enc_h264_state
    enc_job,      \* struct cedrus_enc_h264_job of the job at hand
    enc_pc,       \* "idle", "prepared" or "running"
    enc_out,      \* the headers the job emitted, in order
    enc_bufs,     \* payload and flags of the job's two buffers
    enc_hist      \* history: jobs since stream start, control writes

VARIABLES
    b_stream,     \* bit writer: the bits put into the coded stream, in order
    b_last        \* the last call of the bit writer

formatVars == <<f_engine, f_pixfmt, f_bufs, f_ebuf, f_stream, f_job, f_confused,
                f_mv, f_mvlog, f_last>>

encVars == <<enc_ctrl, enc_ctx, enc_state, enc_job, enc_pc, enc_out, enc_bufs,
             enc_hist>>

bitsVars == <<b_stream, b_last>>

VARIABLES
    d_bufs,       \* H.264 decoder: timestamp and slot of each picture buffer
    d_last        \* the last job of the H.264 decoder and the one before

dpbVars == <<d_bufs, d_last>>

VARIABLES
    h_mv,         \* H.265 decoder: the picture buffer has its MV column buffer
    h_last        \* the last job of the H.265 decoder

h265Vars == <<h_mv, h_last>>

VARIABLES
    wd_done,      \* history: the jobs that cedrus_watchdog completed
    run_fail      \* history: where the last cedrus_context_job_run failed

wdVars == <<wd_done, run_fail>>

VARIABLES
    hd_ctrl,      \* header emission: the QP controls' current values
    hd_ctx,       \* the QP fields and the prepend flag of the engine context
    hd_state,     \* state->step and state->qp_init
    hd_job,       \* the frame type and the QP of the job
    hd_pc,        \* where the job is in job_run
    hd_case,      \* the case the loop's switch selected
    hd_para0,     \* the bits set in VE_ENC_AVC_PARA0_REG
    hd_out,       \* the units the job emitted, in order
    hd_hist       \* history: jobs, control writes, the last PPS's initial QP

hdrVars == <<hd_ctrl, hd_ctx, hd_state, hd_job, hd_pc, hd_case, hd_para0,
             hd_out, hd_hist>>

VARIABLES
    sel_fmt,      \* encoder: width and height of the picture format
    sel_crop,     \* the stored crop rectangle, ctx->v4l2.selection_picture
    sel_last      \* the last call, with the frame-crop offsets of an SPS

selVars == <<sel_fmt, sel_crop, sel_last>>

VARIABLES
    k_bufs,       \* H.264 decoder, full DPBs: timestamp and slot per buffer
    k_last        \* the last job on these buffers

slotVars == <<k_bufs, k_last>>

vars == <<jobVars, streamVars, engineVars, prepareVars, formatVars, encVars,
          bitsVars, dpbVars, h265Vars, wdVars, hdrVars, selVars,
    slotVars>>

\* What the steps of one part of the driver leave alone.
notJobVars == <<streamVars, engineVars, prepareVars, formatVars, encVars,
                bitsVars, dpbVars, h265Vars, wdVars, hdrVars, selVars,
    slotVars>>

notStreamVars == <<jobVars, engineVars, prepareVars, formatVars, encVars,
                   bitsVars, dpbVars, h265Vars, wdVars, hdrVars, selVars,
    slotVars>>

notEngineVars == <<jobVars, streamVars, prepareVars, formatVars, encVars,
                   bitsVars, dpbVars, h265Vars, wdVars, hdrVars, selVars,
    slotVars>>

notPrepareVars == <<jobVars, streamVars, engineVars, formatVars, encVars,
                    bitsVars, dpbVars, h265Vars, wdVars, hdrVars, selVars,
    slotVars>>

notFormatVars == <<jobVars, streamVars, engineVars, prepareVars, encVars,
                   bitsVars, dpbVars, h265Vars, wdVars, hdrVars, selVars,
    slotVars>>

notEncVars == <<jobVars, streamVars, engineVars, prepareVars, formatVars,
                bitsVars, dpbVars, h265Vars, wdVars, hdrVars, selVars,
    slotVars>>

notBitsVars == <<jobVars, streamVars, engineVars, prepareVars, formatVars,
                 encVars, dpbVars, h265Vars, wdVars, hdrVars, selVars,
    slotVars>>

notDpbVars == <<jobVars, streamVars, engineVars, prepareVars, formatVars,
                encVars, bitsVars, h265Vars, wdVars, hdrVars, selVars,
    slotVars>>

notH265Vars == <<jobVars, streamVars, engineVars, prepareVars, formatVars,
                 encVars, bitsVars, dpbVars, wdVars, hdrVars, selVars,
    slotVars>>

notWdVars == <<jobVars, streamVars, engineVars, prepareVars, formatVars,
               encVars, bitsVars, dpbVars, h265Vars, hdrVars, selVars,
    slotVars>>

notJobWdVars == <<streamVars, engineVars, prepareVars, formatVars, encVars,
                  bitsVars, dpbVars, h265Vars, hdrVars, selVars,
    slotVars>>

notHdrVars == <<jobVars, streamVars, engineVars, prepareVars, formatVars,
                encVars, bitsVars, dpbVars, h265Vars, wdVars, selVars,
    slotVars>>

notSelVars == <<jobVars, streamVars, engineVars, prepareVars, formatVars,
                encVars, bitsVars, dpbVars, h265Vars, wdVars, hdrVars,
                slotVars>>

notSlotVars == <<jobVars, streamVars, engineVars, prepareVars, formatVars,
                 encVars, bitsVars, dpbVars, h265Vars, wdVars, hdrVars,
                 selVars>>

ZeroJob == [buffer_coded |-> 0, buffer_picture |-> 0]

\* Sequences of events.
Count(seq, x) == Cardinality({i \in DOMAIN seq : seq[i] = x})

Has(seq, x) == \E i \in DOMAIN seq : seq[i] = x

First(seq, x) ==
    CHOOSE i \in DOMAIN seq : seq[i] = x /\ \A k \in 1..(i-1) : seq[k] # x

----------------------------------------------------------------------------
(* Engine descriptors and the operation wrappers of cedrus_engine.c *)

Success == "OK"

OpNames == {"ctrl_validate", "ctrl_prepare", "format_prepare",
            "format_configure", "setup", "cleanup", "buffer_setup",
            "buffer_cleanup", "job_prepare", "job_configure", "job_trigger",
            "job_finish", "irq_status", "irq_clear", "irq_disable"}

\* struct cedrus_engine_ops of each engine: the operations it sets.
OpsOf(e) ==
    CASE e = "mpeg2" ->
           {"format_prepare", "format_configure", "job_prepare",
            "job_configure", "job_trigger", "irq_status", "irq_clear",
            "irq_disable"}
      [] e = "h264" ->
           {"format_prepare", "format_configure", "setup", "cleanup",
            "buffer_cleanup", "job_prepare", "job_configure", "job_trigger",
            "irq_status", "irq_clear", "irq_disable"}
      [] e = "h265" ->
           {"format_prepare", "format_configure", "setup", "cleanup",
            "buffer_cleanup", "job_prepare", "job_configure", "job_trigger",
            "irq_status", "irq_clear", "irq_disable"}
      [] e = "h264enc" ->
           {"ctrl_validate", "ctrl_prepare", "format_prepare",
            "format_configure", "setup", "cleanup", "buffer_setup",
            "buffer_cleanup", "job_prepare", "job_configure", "job_trigger",
            "job_finish", "irq_status", "irq_clear", "irq_disable"}

\* ctx->engine as the wrappers see it: the pointer, its ops pointer, the table.
NoDesc == [present |-> FALSE, has_ops |-> FALSE, ops |-> {}]

Desc(e) ==
    IF e = NULL THEN NoDesc
    ELSE [present |-> TRUE, has_ops |-> TRUE, ops |-> OpsOf(e)]

\* WARN_ON(!engine || !engine->ops)
NoEngine(d) == ~d.present \/ ~d.has_ops

\* A wrapper's outcome: its return value and whether the codec callback ran.
\* cb is what the callback returns when it is called.
cedrus_engine_ctrl_validate(d, cb) ==
    IF NoEngine(d) THEN [ret |-> "ENODEV", called |-> FALSE]
    ELSE IF "ctrl_validate" \notin d.ops THEN [ret |-> Success, called |-> FALSE]
    ELSE [ret |-> cb, called |-> TRUE]

cedrus_engine_ctrl_prepare(d, cb) ==
    IF NoEngine(d) THEN [ret |-> "ENODEV", called |-> FALSE]
    ELSE IF "ctrl_prepare" \notin d.ops THEN [ret |-> Success, called |-> FALSE]
    ELSE [ret |-> cb, called |-> TRUE]

cedrus_engine_format_prepare(d, cb) ==
    IF NoEngine(d) \/ "format_prepare" \notin d.ops
    THEN [ret |-> "ENODEV", called |-> FALSE]
    ELSE [ret |-> cb, called |-> TRUE]

cedrus_engine_format_configure(d, cb) ==
    IF NoEngine(d) \/ "format_configure" \notin d.ops
    THEN [ret |-> "ENODEV", called |-> FALSE]
    ELSE [ret |-> cb, called |-> TRUE]

cedrus_engine_setup(d, cb) ==
    IF NoEngine(d) THEN [ret |-> "ENODEV", called |-> FALSE]
    ELSE IF "setup" \notin d.ops THEN [ret |-> Success, called |-> FALSE]
    ELSE [ret |-> cb, called |-> TRUE]

cedrus_engine_cleanup(d) ==
    IF NoEngine(d) \/ "cleanup" \notin d.ops
    THEN [ret |-> "void", called |-> FALSE]
    ELSE [ret |-> "void", called |-> TRUE]

cedrus_engine_buffer_setup(d, cb) ==
    IF NoEngine(d) THEN [ret |-> "ENODEV", called |-> FALSE]
    ELSE IF "buffer_setup" \notin d.ops THEN [ret |-> Success, called |-> FALSE]
    ELSE [ret |-> cb, called |-> TRUE]

cedrus_engine_buffer_cleanup(d) ==
    IF NoEngine(d) \/ "buffer_cleanup" \notin d.ops
    THEN [ret |-> "void", called |-> FALSE]
    ELSE [ret |-> "void", called |-> TRUE]

cedrus_engine_job_prepare(d, cb) ==
    IF NoEngine(d) THEN [ret |-> "ENODEV", called |-> FALSE]
    ELSE IF "job_prepare" \notin d.ops THEN [ret |-> Success, called |-> FALSE]
    ELSE [ret |-> cb, called |-> TRUE]

\* A faulty wrapper: job_configure without the test of the engine descriptor.
cedrus_engine_job_configure_nocheck(d, cb) ==
    IF "job_configure" \notin d.ops THEN [ret |-> Success, called |-> FALSE]
    ELSE [ret |-> cb, called |-> TRUE]

cedrus_engine_job_configure(d, cb) ==
    IF NoEngine(d) THEN [ret |-> "ENODEV", called |-> FALSE]
    ELSE IF "job_configure" \notin d.ops THEN [ret |-> Success, called |-> FALSE]
    ELSE [ret |-> cb, called |-> TRUE]

cedrus_engine_job_trigger(d) ==
    IF NoEngine(d) \/ "job_trigger" \notin d.ops
    THEN [ret |-> "void", called |-> FALSE]
    ELSE [ret |-> "void", called |-> TRUE]

cedrus_engine_job_finish(d) ==
    IF NoEngine(d) \/ "job_finish" \notin d.ops
    THEN [ret |-> "void", called |-> FALSE]
    ELSE [ret |-> "void", called |-> TRUE]

\* Returns IRQ_NONE (0, the value of CEDRUS_IRQ_NONE) without an engine.
cedrus_engine_irq_status(d, cb) ==
    IF NoEngine(d) \/ "irq_status" \notin d.ops
    THEN [ret |-> CEDRUS_IRQ_NONE, called |-> FALSE]
    ELSE [ret |-> cb, called |-> TRUE]

cedrus_engine_irq_clear(d) ==
    IF NoEngine(d) \/ "irq_clear" \notin d.ops
    THEN [ret |-> "void", called |-> FALSE]
    ELSE [ret |-> "void", called |-> TRUE]

cedrus_engine_irq_disable(d) ==
    IF NoEngine(d) \/ "irq_disable" \notin d.ops
    THEN [ret |-> "void", called |-> FALSE]
    ELSE [ret |-> "void", called |-> TRUE]

----------------------------------------------------------------------------
(* Job pipeline *)

InitJob ==
    /\ engine \in {f \in [Contexts -> Engines] :
                     \A c \in Contexts : f[c] \in ProcEngines(ProcOf(c))}
    /\ open = [c \in Contexts |-> "open"]
    /\ curr = NULL
    /\ pc = "idle"
    /\ job = [c \in Contexts |-> ZeroJob]
    /\ cur_req = FALSE
    /\ ctx_active = [p \in Procs |-> NULL]
    /\ wdog = "idle"
    /\ irq_en = [e \in Engines |-> FALSE]
    /\ irq_stat = [e \in Engines |-> CEDRUS_IRQ_NONE]
    /\ hw_busy = NULL
    /\ njobs = 0
    /\ nspur = 0
    /\ finished = [j \in JobIds |-> <<>>]
    /\ trace = <<>>
    /\ last = "init"

\* Controls each job_prepare callback looks up.
JobCtrls(e) ==
    CASE e = "mpeg2" ->
           {"MPEG2_SEQUENCE", "MPEG2_PICTURE", "MPEG2_QUANTISATION"}
      [] e = "h264" ->
           {"H264_SPS", "H264_PPS", "H264_SCALING_MATRIX", "H264_SLICE_PARAMS",
            "H264_PRED_WEIGHTS", "H264_DECODE_PARAMS"}
      [] e = "h265" ->
           {"HEVC_SPS", "HEVC_PPS", "HEVC_SCALING_MATRIX", "HEVC_SLICE_PARAMS",
            "HEVC_ENTRY_POINT_OFFSETS", "HEVC_DECODE_PARAMS"}
      [] e = "h264enc" -> {}

\* cedrus_context_ctrls_setup: the handler of a session holds the controls of
\* every engine of its processing unit, or the session does not open.
Handler(p) == UNION {JobCtrls(e) : e \in ProcEngines(p)}

\* v4l2_ctrl_handler_setup leaves each control with its default payload.
DefaultCur(p) == [id \in Handler(p) |-> "default"]

\* v4l2_ctrl_request_setup: the controls the request carries become current.
v4l2_ctrl_request_setup(cur, carried) ==
    [id \in DOMAIN cur |-> IF id \in carried THEN "set" ELSE cur[id]]

\* cedrus_context_ctrl_data: NULL (with a warning) for a control the handler
\* does not hold, else the current payload of the control.
cedrus_context_ctrl_data(handler, cur, id) ==
    IF id \notin handler THEN NULL ELSE cur[id]

\* The job_prepare callbacks: each caches the control payloads in engine_job
\* and ends in "return 0" on every path.
cedrus_dec_mpeg2_job_prepare(handler, cur) ==
    [ret |-> Success,
     job |-> [id \in JobCtrls("mpeg2") |->
                cedrus_context_ctrl_data(handler, cur, id)]]

cedrus_dec_h264_job_prepare(handler, cur) ==
    [ret |-> Success,
     job |-> [id \in JobCtrls("h264") |->
                cedrus_context_ctrl_data(handler, cur, id)]]

cedrus_dec_h265_job_prepare(handler, cur) ==
    [ret |-> Success,
     job |-> [id \in JobCtrls("h265") |->
                cedrus_context_ctrl_data(handler, cur, id)]]

cedrus_enc_h264_job_prepare(handler, cur) ==
    [ret |-> Success, job |-> [id \in JobCtrls("h264enc") |-> NULL]]

\* engine->ops->job_prepare(ctx)
JobPrepareCb(e, handler, cur) ==
    CASE e = "mpeg2" -> cedrus_dec_mpeg2_job_prepare(handler, cur)
      [] e = "h264" -> cedrus_dec_h264_job_prepare(handler, cur)
      [] e = "h265" -> cedrus_dec_h265_job_prepare(handler, cur)
      [] e = "h264enc" -> cedrus_enc_h264_job_prepare(handler, cur)

\* Where the configuration of a job fails first, if anywhere: the callbacks
\* behind format_configure, format_picture_configure and job_configure each
\* have error returns.
FailPoints == {"none", "format", "picture", "configure"}

CbResult(fail, step, err) == IF fail = step THEN err ELSE Success

Ev(called, name) == IF called THEN <<name>> ELSE <<>>

\* A faulty job_run: the status of the picture format configuration is not
\* looked at.
JobRunSteps_picture_unchecked(d, req, fail, prep_cb) ==
    LET t0   == IF req THEN <<"req_setup">> ELSE <<>>
        prep == cedrus_engine_job_prepare(d, prep_cb)
        fmt  == cedrus_engine_format_configure(
                    d, CbResult(fail, "format", "EINVAL"))
        cfg  == cedrus_engine_job_configure(
                    d, CbResult(fail, "configure", "ENOMEM"))
        t1   == t0 \o Ev(prep.called, "job_prepare")
        t2   == t1 \o Ev(fmt.called, "format_configure")
        t4   == t2 \o <<"picture_configure">>
                   \o Ev(cfg.called, "job_configure")
    IN  IF prep.ret # Success THEN [ret |-> prep.ret, trace |-> t1]
        ELSE IF fmt.ret # Success THEN [ret |-> fmt.ret, trace |-> t2]
        ELSE [ret |-> cfg.ret, trace |-> t4]

\* cedrus_context_job_run up to the end of job_configure: the status the code
\* holds in ret and the calls made so far, in order.
JobRunSteps(d, req, fail, prep_cb) ==
    LET t0   == IF req THEN <<"req_setup">> ELSE <<>>
        prep == cedrus_engine_job_prepare(d, prep_cb)
        t1   == t0 \o Ev(prep.called, "job_prepare")
        fmt  == cedrus_engine_format_configure(
                    d, CbResult(fail, "format", "EINVAL"))
        t2   == t1 \o Ev(fmt.called, "format_configure")
        pic  == CbResult(fail, "picture", "EINVAL")
        t3   == t2 \o <<"picture_configure">>
        cfg  == cedrus_engine_job_configure(
                    d, CbResult(fail, "configure", "ENOMEM"))
        t4   == t3 \o Ev(cfg.called, "job_configure")
    IN  IF prep.ret # Success THEN [ret |-> prep.ret, trace |-> t1]
        ELSE IF fmt.ret # Success THEN [ret |-> fmt.ret, trace |-> t2]
        ELSE IF pic # Success THEN [ret |-> pic, trace |-> t3]
        ELSE [ret |-> cfg.ret, trace |-> t4]

\* schedule_delayed_work: queues the work unless it is already pending.
schedule_delayed_work(w) ==
    CASE w = "idle" -> "pending"
      [] w = "pending" -> "pending"
      [] w = "running" -> "rearmed"
      [] w = "rearmed" -> "rearmed"

\* cancel_delayed_work: true exactly when the work was pending and is dequeued.
cancel_delayed_work(w) ==
    CASE w = "pending" -> [ok |-> TRUE, w |-> "idle"]
      [] w = "rearmed" -> [ok |-> TRUE, w |-> "running"]
      [] OTHER -> [ok |-> FALSE, w |-> w]

\* A faulty job_finish: the job structure is not cleared on completion.
cedrus_context_job_finish_noclear(c, state, id, tr) ==
    /\ job' = job
    /\ finished' = [finished EXCEPT ![id] = Append(@, state)]
    /\ curr' = NULL
    /\ trace' = tr \o <<"m2m_done">>

\* cedrus_context_job_finish(ctx, state), job being the id the m2m framework
\* runs: engine job_finish, memset of ctx->job, then
\* v4l2_m2m_buf_done_and_job_finish, which ends the running m2m job.
cedrus_context_job_finish(c, state, id, tr) ==
    LET fin == cedrus_engine_job_finish(Desc(engine[c]))
    IN  /\ job' = [job EXCEPT ![c] = ZeroJob]
        /\ finished' = [finished EXCEPT ![id] = Append(@, state)]
        /\ curr' = NULL
        /\ trace' = tr \o Ev(fin.called, "engine_job_finish")
                       \o <<"job_zero", "m2m_done">>

\* cedrus_proc_context_active_update
cedrus_proc_context_active_update(active, c) ==
    [active EXCEPT ![ProcOf(c)] = c]

\* cedrus_proc_context_active_clear
cedrus_proc_context_active_clear(active, c) ==
    IF active[ProcOf(c)] = c THEN [active EXCEPT ![ProcOf(c)] = NULL]
    ELSE active

\* A faulty completion: the request is completed on the success path only.
RequestComplete_SuccessOnly(req, ret) ==
    IF req /\ ret = Success THEN <<"req_complete">> ELSE <<>>

\* v4l2_ctrl_request_complete in cedrus_context_job_run: after job_configure
\* on the success path, under error_ctrl on the failure path.
RequestComplete(req, ret) == IF req THEN <<"req_complete">> ELSE <<>>

\* cedrus_v4l2_m2m_device_run -> cedrus_context_job_run, up to and including
\* schedule_delayed_work; the m2m framework runs one job at a time and has made
\* the session current before the call.
cedrus_v4l2_m2m_device_run(c) ==
    /\ curr = NULL
    /\ pc = "idle"
    /\ njobs < MaxJobs
    /\ \E req \in BOOLEAN, fail \in FailPoints :
         LET id == njobs + 1
             p  == ProcOf(c)
             cb == JobPrepareCb(engine[c], Handler(p), DefaultCur(p))
             r  == JobRunSteps(Desc(engine[c]), req, fail, cb.ret)
             rc == RequestComplete(req, r.ret)
         IN  /\ njobs' = id
             /\ cur_req' = req
             /\ run_fail' = fail
             /\ IF r.ret = Success
                THEN /\ curr' = c
                     /\ job' = [job EXCEPT ![c] = [buffer_coded |-> id,
                                                   buffer_picture |-> id]]
                     /\ ctx_active' =
                            cedrus_proc_context_active_update(ctx_active, c)
                     /\ wdog' = schedule_delayed_work(wdog)
                     /\ irq_en' = [irq_en EXCEPT ![engine[c]] = TRUE]
                     /\ trace' = r.trace \o rc
                                   \o <<"active_update", "watchdog_arm">>
                     /\ pc' = c
                     /\ last' = "run"
                     /\ UNCHANGED finished
                ELSE /\ cedrus_context_job_finish(c, "ERROR", id,
                                                  r.trace \o rc)
                     /\ last' = "run_error"
                     /\ UNCHANGED <<ctx_active, wdog, irq_en, pc>>
    /\ UNCHANGED <<engine, open, irq_stat, hw_busy, nspur, wd_done>>
    /\ UNCHANGED notJobWdVars

\* The framework runs a job of an open session.
DeviceRun(c) == open[c] = "open" /\ cedrus_v4l2_m2m_device_run(c)

\* The framework runs a job that was queued when the release of its session
\* began: cedrus_context_cleanup has cleared the active marker, and
\* v4l2_m2m_ctx_release, which takes the queued job off the queue or waits
\* for the running one, is not reached yet.
DeviceRunQueued(c) == open[c] = "releasing" /\ cedrus_v4l2_m2m_device_run(c)

\* The tail of cedrus_context_job_run: cedrus_engine_job_trigger.
JobTrigger ==
    /\ pc # "idle"
    /\ LET trg == cedrus_engine_job_trigger(Desc(engine[pc]))
       IN  /\ hw_busy' = IF trg.called THEN engine[pc] ELSE hw_busy
           /\ trace' = trace \o Ev(trg.called, "job_trigger")
    /\ pc' = "idle"
    /\ last' = "trigger"
    /\ UNCHANGED <<engine, open, curr, job, cur_req, ctx_active, wdog, irq_en,
                   irq_stat, njobs, nspur, finished>>
    /\ UNCHANGED notJobVars

\* The hardware ends its work and latches a status bit (the bits that
\* cedrus_*_irq_status read as error or success).
HwComplete ==
    /\ hw_busy # NULL
    /\ \E st \in {CEDRUS_IRQ_ERROR, CEDRUS_IRQ_SUCCESS} :
         irq_stat' = [irq_stat EXCEPT ![hw_busy] = st]
    /\ hw_busy' = NULL
    /\ last' = "hw"
    /\ UNCHANGED <<engine, open, curr, pc, job, cur_req, ctx_active, wdog,
                   irq_en, njobs, nspur, finished, trace>>
    /\ UNCHANGED notJobVars

\* A faulty cedrus_irq_disable_clear: the interrupt is cleared, not disabled.
cedrus_irq_disable_clear_not_disabled(regs, e) ==
    LET clr == cedrus_engine_irq_clear(Desc(e))
    IN  [en   |-> regs.en,
         stat |-> IF clr.called
                  THEN [regs.stat EXCEPT ![e] = CEDRUS_IRQ_NONE]
                  ELSE regs.stat,
         ev   |-> Ev(clr.called, "irq_clear")]

\* The registers after cedrus_irq_disable_clear(ctx): irq_disable, then
\* irq_clear, on the engine of the session.
cedrus_irq_disable_clear(regs, e) ==
    LET dis == cedrus_engine_irq_disable(Desc(e))
        clr == cedrus_engine_irq_clear(Desc(e))
    IN  [en   |-> IF dis.called THEN [regs.en EXCEPT ![e] = FALSE]
                  ELSE regs.en,
         stat |-> IF clr.called
                  THEN [regs.stat EXCEPT ![e] = CEDRUS_IRQ_NONE]
                  ELSE regs.stat,
         ev   |-> Ev(dis.called, "irq_disable") \o Ev(clr.called, "irq_clear")]

\* A faulty spurious path: it disables and clears every engine.
cedrus_irq_spurious_all(regs, active) ==
    [en |-> [e \in Engines |-> FALSE],
     stat |-> [e \in Engines |-> CEDRUS_IRQ_NONE]]

\* cedrus_irq_spurious: disable and clear on the active session of the
\* decoder, then of the encoder.
cedrus_irq_spurious(regs, active) ==
    LET r1 == IF active["dec"] # NULL
              THEN cedrus_irq_disable_clear(regs, engine[active["dec"]])
              ELSE regs
    IN  IF active["enc"] # NULL
        THEN cedrus_irq_disable_clear(r1, engine[active["enc"]])
        ELSE r1

\* The interrupt line: some engine has an enabled status bit set.
IrqRaised == \E e \in Engines : irq_en[e] /\ irq_stat[e] # CEDRUS_IRQ_NONE

\* What cedrus_irq does once the watchdog is cancelled and a session is
\* current: "none" (return IRQ_NONE) or the state it completes the job with.
IrqVerdict(status) ==
    IF status = CEDRUS_IRQ_NONE THEN "none"
    ELSE IF status = CEDRUS_IRQ_ERROR THEN "ERROR"
    ELSE "DONE"

\* cedrus_irq, the whole handler (it runs in hard interrupt context). The
\* handler is entered because the line is raised, or with no status bit set
\* (at most MaxSpurious times).
Irq ==
    /\ IrqRaised \/ nspur < MaxSpurious
    /\ nspur' = IF IrqRaised THEN nspur ELSE nspur + 1
    /\ LET ctx    == curr
           cancel == cancel_delayed_work(wdog)
           regs   == [en |-> irq_en, stat |-> irq_stat]
       IN  /\ wdog' = cancel.w
           /\ IF ~cancel.ok \/ ctx = NULL
              THEN LET r == cedrus_irq_spurious(regs, ctx_active)
                   IN  /\ irq_en' = r.en
                       /\ irq_stat' = r.stat
                       /\ last' = "irq_spurious"
                       /\ UNCHANGED <<job, finished, curr, trace>>
              ELSE LET st == cedrus_engine_irq_status(
                                 Desc(engine[ctx]), irq_stat[engine[ctx]])
                       v  == IrqVerdict(st.ret)
                   IN  IF v = "none"
                       THEN /\ last' = "irq_none"
                            /\ UNCHANGED <<irq_en, irq_stat, job, finished,
                                           curr, trace>>
                       ELSE LET r == cedrus_irq_disable_clear(regs,
                                                              engine[ctx])
                            IN  /\ irq_en' = r.en
                                /\ irq_stat' = r.stat
                                /\ last' = "irq_finish"
                                /\ cedrus_context_job_finish(
                                       ctx, v, njobs,
                                       trace \o r.ev)
    /\ UNCHANGED <<engine, open, pc, cur_req, ctx_active, hw_busy, njobs>>
    /\ UNCHANGED notJobVars

\* The watchdog timer expires and the workqueue starts cedrus_watchdog: the
\* work is no longer pending. The 2 s timeout does not elapse between
\* schedule_delayed_work and job_trigger, two adjacent statements.
WatchdogExpire ==
    /\ wdog = "pending"
    /\ pc = "idle"
    /\ wdog' = "running"
    /\ last' = "wdog_expire"
    /\ UNCHANGED <<engine, open, curr, pc, job, cur_req, ctx_active, irq_en,
                   irq_stat, hw_busy, njobs, nspur, finished, trace>>
    /\ UNCHANGED notJobVars

\* No job was dispatched yet.
InitWd == wd_done = {} /\ run_fail = "none"

\* A faulty watchdog: the job is finished without a reset of the hardware.
cedrus_watchdog_no_reset ==
    /\ wdog \in {"running", "rearmed"}
    /\ wdog' = IF wdog = "rearmed" THEN "pending" ELSE "idle"
    /\ IF curr = NULL
       THEN /\ last' = "wdog_noctx"
            /\ UNCHANGED <<job, finished, curr, trace, wd_done>>
       ELSE /\ last' = "wdog_finish"
            /\ wd_done' = wd_done \cup {njobs}
            /\ cedrus_context_job_finish(curr, "ERROR", njobs, trace)
    /\ UNCHANGED <<engine, open, pc, cur_req, ctx_active, njobs, nspur,
                   irq_en, irq_stat, hw_busy, run_fail>>
    /\ UNCHANGED notJobWdVars

\* The body of cedrus_watchdog: reset_control_reset puts the hardware back in
\* its reset state, then the job is finished in error state.
cedrus_watchdog ==
    /\ wdog \in {"running", "rearmed"}
    /\ wdog' = IF wdog = "rearmed" THEN "pending" ELSE "idle"
    /\ IF curr = NULL
       THEN /\ last' = "wdog_noctx"
            /\ UNCHANGED <<job, finished, curr, trace, irq_en, irq_stat,
                           hw_busy, wd_done>>
       ELSE /\ hw_busy' = NULL
            /\ irq_en' = [e \in Engines |-> FALSE]
            /\ irq_stat' = [e \in Engines |-> CEDRUS_IRQ_NONE]
            /\ last' = "wdog_finish"
            /\ wd_done' = wd_done \cup {njobs}
            /\ cedrus_context_job_finish(curr, "ERROR", njobs,
                                         trace \o <<"reset">>)
    /\ UNCHANGED <<engine, open, pc, cur_req, ctx_active, njobs, nspur,
                   run_fail>>
    /\ UNCHANGED notJobWdVars

\* cedrus_proc_release -> cedrus_context_cleanup: the active marker is cleared
\* first; v4l2_m2m_ctx_release then waits for a running job of the session.
ReleaseBegin(c) ==
    /\ open[c] = "open"
    /\ pc # c
    /\ open' = [open EXCEPT ![c] = "releasing"]
    /\ ctx_active' = cedrus_proc_context_active_clear(ctx_active, c)
    /\ last' = "release"
    /\ UNCHANGED <<engine, curr, pc, job, cur_req, wdog, irq_en, irq_stat,
                   hw_busy, njobs, nspur, finished, trace>>
    /\ UNCHANGED notJobVars

ReleaseEnd(c) ==
    /\ open[c] = "releasing"
    /\ curr # c
    /\ open' = [open EXCEPT ![c] = "closed"]
    /\ last' = "released"
    /\ UNCHANGED <<engine, curr, pc, job, cur_req, ctx_active, wdog, irq_en,
                   irq_stat, hw_busy, njobs, nspur, finished, trace>>
    /\ UNCHANGED notJobVars

----------------------------------------------------------------------------
(* Streaming: cedrus_context_start_streaming / cedrus_context_stop_streaming *)

NullPtr == 0

Queues == {"coded", "picture"}

\* Where a start fails, if anywhere: pm_runtime_resume_and_get, the kzalloc of
\* engine_ctx, the kzalloc of engine_job, the setup callback of the engine.
StartFails == {"none", "pm", "ctx", "job", "setup"}

\* engine->ctx_size > 0: every engine but MPEG-2 has a context structure.
HasCtxSize(e) == e # "mpeg2"

\* engine->job_size > 0: every engine has a job structure.
HasJobSize(e) == e \in Engines

Heap0 ==
    [live |-> {}, next |-> 1,
     allocs |-> [ctx |-> 0, job |-> 0],
     frees |-> [ctx |-> 0, job |-> 0],
     double_free |-> FALSE]

\* kzalloc: a fresh address, or NULL when the allocation fails.
kzalloc(h, kind, ok) ==
    IF ok
    THEN [ptr |-> h.next,
          heap |-> [h EXCEPT !.live = @ \cup {h.next}, !.next = @ + 1,
                             !.allocs[kind] = @ + 1]]
    ELSE [ptr |-> NullPtr, heap |-> h]

\* kfree: nothing for NULL; releases a live address; freeing an address that
\* is not live is a double free.
kfree(h, p, kind) ==
    IF p = NullPtr THEN h
    ELSE IF p \in h.live
    THEN [h EXCEPT !.live = @ \ {p}, !.frees[kind] = @ + 1]
    ELSE [h EXCEPT !.double_free = TRUE, !.frees[kind] = @ + 1]

\* pm_runtime_resume_and_get: holds a usage reference only when it succeeds.
pm_runtime_resume_and_get(m, ok) ==
    IF ok THEN [m EXCEPT !.usage = @ + 1, !.gets = @ + 1] ELSE m

pm_runtime_put(m) == [m EXCEPT !.usage = @ - 1, !.puts = @ + 1]

\* The session as the streaming operations see it.
World ==
    [engine_ctx |-> engine_ctx, engine_job |-> engine_job,
     engine_dma |-> engine_dma, heap |-> heap, pm |-> pm, fault |-> fault,
     ret |-> Success]

\* A faulty unwinding: engine_ctx is not freed.
StartUnwind_keep_ctx(w, label, ret) ==
    LET w1 == IF label = "error_alloc_job"
              THEN [w EXCEPT !.heap = kfree(w.heap, w.engine_job, "job"),
                             !.engine_job = NullPtr]
              ELSE w
        w3 == IF label \in {"error_alloc_job", "error_alloc_engine", "error_pm"}
              THEN [w1 EXCEPT !.pm = pm_runtime_put(@)]
              ELSE w1
    IN  [w3 EXCEPT !.ret = ret]

\* The error labels of cedrus_context_start_streaming, entered at label and
\* falling through to the return of ret.
StartUnwind(w, label, ret) ==
    LET w1 == IF label = "error_alloc_job"
              THEN [w EXCEPT !.heap = kfree(w.heap, w.engine_job, "job"),
                             !.engine_job = NullPtr]
              ELSE w
        w2 == IF label \in {"error_alloc_job", "error_alloc_engine"}
              THEN [w1 EXCEPT !.heap = kfree(w1.heap, w1.engine_ctx, "ctx"),
                              !.engine_ctx = NullPtr]
              ELSE w1
        w3 == IF label \in {"error_alloc_job", "error_alloc_engine", "error_pm"}
              THEN [w2 EXCEPT !.pm = pm_runtime_put(@)]
              ELSE w2
    IN  [w3 EXCEPT !.ret = ret]

\* The setup callbacks (cedrus_dec_h264_setup and its like) allocate the DMA
\* buffers of the engine context and free what they allocated when they fail.
EngineSetupCb(w, ok) == [w EXCEPT !.engine_dma = ok]

\* cedrus_context_start_streaming on queue q of a session with engine e.
cedrus_context_start_streaming(w, e, q, fail) ==
    IF q # "coded" THEN [w EXCEPT !.ret = Success]
    ELSE IF fail = "pm" THEN StartUnwind(w, "error_queue", "EIO")
    ELSE
      LET w1 == [w EXCEPT !.pm = pm_runtime_resume_and_get(@, TRUE)]
          a1 == kzalloc(w1.heap, "ctx", fail # "ctx")
          w2 == IF HasCtxSize(e)
                THEN [w1 EXCEPT !.heap = a1.heap, !.engine_ctx = a1.ptr]
                ELSE w1
      IN  IF HasCtxSize(e) /\ w2.engine_ctx = NullPtr
          THEN StartUnwind(w2, "error_pm", "ENOMEM")
          ELSE
            LET a2 == kzalloc(w2.heap, "job", fail # "job")
                w3 == IF HasJobSize(e)
                      THEN [w2 EXCEPT !.heap = a2.heap, !.engine_job = a2.ptr]
                      ELSE w2
            IN  IF HasJobSize(e) /\ w3.engine_job = NullPtr
                THEN StartUnwind(w3, "error_alloc_engine", "ENOMEM")
                ELSE
                  LET su == cedrus_engine_setup(
                                Desc(e),
                                IF fail = "setup" THEN "ENOMEM" ELSE Success)
                      w4 == IF su.called
                            THEN EngineSetupCb(w3, su.ret = Success)
                            ELSE w3
                  IN  IF su.ret # Success
                      THEN StartUnwind(w4, "error_alloc_job", su.ret)
                      ELSE [w4 EXCEPT !.ret = Success]

\* The cleanup callbacks (cedrus_dec_h264_cleanup, cedrus_dec_h265_cleanup,
\* cedrus_enc_h264_cleanup) read the DMA buffers to free through
\* ctx->engine_ctx, without testing the pointer.
EngineCleanupCb(w) ==
    IF w.engine_ctx \in w.heap.live
    THEN [w EXCEPT !.engine_dma = FALSE]
    ELSE [w EXCEPT !.fault = TRUE]

\* cedrus_context_stop_streaming on queue q. A dereference of a pointer that
\* holds no allocation either ends the calling task at that point (oops) or
\* lets the function run on.
cedrus_context_stop_streaming(w, e, q, oops) ==
    IF q # "coded" THEN w
    ELSE
      LET cl == cedrus_engine_cleanup(Desc(e))
          w1 == IF cl.called THEN EngineCleanupCb(w) ELSE w
      IN  IF w1.fault /\ ~w.fault /\ oops THEN w1
          ELSE
            LET w2 == [w1 EXCEPT !.heap = kfree(w1.heap, w1.engine_job, "job"),
                                 !.engine_job = NullPtr]
                w3 == [w2 EXCEPT !.heap = kfree(w2.heap, w2.engine_ctx, "ctx"),
                                 !.engine_ctx = NullPtr]
            IN  [w3 EXCEPT !.pm = pm_runtime_put(@)]

InitStream ==
    /\ s_engine \in Engines
    /\ engine_ctx = NullPtr
    /\ engine_job = NullPtr
    /\ engine_dma = FALSE
    /\ heap = Heap0
    /\ pm = [usage |-> 0, gets |-> 0, puts |-> 0]
    /\ fault = FALSE
    /\ streaming = [q \in Queues |-> FALSE]
    /\ s_hist = <<>>

SetWorld(w) ==
    /\ engine_ctx' = w.engine_ctx
    /\ engine_job' = w.engine_job
    /\ engine_dma' = w.engine_dma
    /\ heap' = w.heap
    /\ pm' = w.pm
    /\ fault' = w.fault

\* The call made last, and whether it was a start of the coded queue that
\* failed.
LastCall == s_hist[Len(s_hist)]

FailedCodedStart(call) ==
    call.op = "start" /\ call.queue = "coded" /\ call.ret # Success

\* vb2 starts a queue that is not streaming.
StartStreaming(q) ==
    /\ Len(s_hist) < MaxStreamCalls
    /\ ~streaming[q]
    /\ \E fail \in (IF q = "coded" THEN StartFails ELSE {"none"}) :
         LET w == cedrus_context_start_streaming(World, s_engine, q, fail)
         IN  /\ SetWorld(w)
             /\ streaming' = [streaming EXCEPT ![q] = (w.ret = Success)]
             /\ s_hist' = Append(s_hist, [op |-> "start", queue |-> q,
                                          ret |-> w.ret, fail |-> fail])
    /\ UNCHANGED s_engine
    /\ UNCHANGED notStreamVars

\* stop_streaming is called on a queue that streams, or right after the start
\* of that queue failed.
StopStreaming(q) ==
    /\ Len(s_hist) < MaxStreamCalls
    /\ \/ streaming[q]
       \/ /\ s_hist # <<>>
          /\ LastCall.op = "start" /\ LastCall.queue = q
          /\ LastCall.ret # Success
    /\ \E oops \in BOOLEAN :
         LET w == cedrus_context_stop_streaming(World, s_engine, q, oops)
         IN  /\ SetWorld(w)
             /\ s_hist' = Append(s_hist, [op |-> "stop", queue |-> q,
                                          ret |-> "void", fail |-> "none"])
    /\ streaming' = [streaming EXCEPT ![q] = FALSE]
    /\ UNCHANGED s_engine
    /\ UNCHANGED notStreamVars

----------------------------------------------------------------------------
(* One call of an engine operation wrapper *)

\* ctx->engine: no descriptor, a descriptor without operation table, or the
\* descriptor of an engine.
Descriptors ==
    {NoDesc, [present |-> TRUE, has_ops |-> FALSE, ops |-> {}]}
        \cup {Desc(e) : e \in Engines}

\* What a callback may return: a status for irq_status, else 0 or an errno.
CbValues(op) ==
    IF op = "irq_status" THEN IrqStatuses ELSE {Success, "EINVAL"}

\* The wrapper of operation op.
EngineCall(d, op, cb) ==
    CASE op = "ctrl_validate" -> cedrus_engine_ctrl_validate(d, cb)
      [] op = "ctrl_prepare" -> cedrus_engine_ctrl_prepare(d, cb)
      [] op = "format_prepare" -> cedrus_engine_format_prepare(d, cb)
      [] op = "format_configure" -> cedrus_engine_format_configure(d, cb)
      [] op = "setup" -> cedrus_engine_setup(d, cb)
      [] op = "cleanup" -> cedrus_engine_cleanup(d)
      [] op = "buffer_setup" -> cedrus_engine_buffer_setup(d, cb)
      [] op = "buffer_cleanup" -> cedrus_engine_buffer_cleanup(d)
      [] op = "job_prepare" -> cedrus_engine_job_prepare(d, cb)
      [] op = "job_configure" -> cedrus_engine_job_configure(d, cb)
      [] op = "job_trigger" -> cedrus_engine_job_trigger(d)
      [] op = "job_finish" -> cedrus_engine_job_finish(d)
      [] op = "irq_status" -> cedrus_engine_irq_status(d, cb)
      [] op = "irq_clear" -> cedrus_engine_irq_clear(d)
      [] op = "irq_disable" -> cedrus_engine_irq_disable(d)

InitEngine ==
    /\ e_desc \in Descriptors
    /\ e_op = "none"
    /\ e_cb = "none"
    /\ e_ret = "none"
    /\ e_called = FALSE

WrapperCall ==
    \E op \in OpNames : \E cb \in CbValues(op) :
        LET r == EngineCall(e_desc, op, cb)
        IN  /\ e_op' = op
            /\ e_cb' = cb
            /\ e_ret' = r.ret
            /\ e_called' = r.called
            /\ UNCHANGED e_desc
            /\ UNCHANGED notEngineVars

----------------------------------------------------------------------------
(* job_run of a decoder session over the controls its requests carry *)

InitPrepare ==
    /\ p_engine \in DecEngines
    /\ p_cur = DefaultCur("dec")
    /\ p_req = {}
    /\ p_job = [id \in JobCtrls(p_engine) |-> NULL]
    /\ p_ret = "none"
    /\ p_state = "none"
    /\ p_trace = <<>>
    /\ p_n = 0

\* cedrus_context_job_run for a job whose request carries the controls in
\* carried: the request is applied, job_prepare caches the payloads, the job
\* is configured, and it is armed or finished in error.
PrepareJob ==
    /\ p_n < MaxPrepJobs
    /\ \E carried \in SUBSET JobCtrls(p_engine), fail \in FailPoints :
         LET cur1 == v4l2_ctrl_request_setup(p_cur, carried)
             cb   == JobPrepareCb(p_engine, Handler("dec"), cur1)
             r    == JobRunSteps(Desc(p_engine), TRUE, fail, cb.ret)
         IN  /\ p_cur' = cur1
             /\ p_req' = carried
             /\ p_job' = IF Has(r.trace, "job_prepare") THEN cb.job ELSE p_job
             /\ p_ret' = r.ret
             /\ p_state' = IF r.ret = Success THEN "ARMED" ELSE "ERROR"
             /\ p_trace' = r.trace \o RequestComplete(TRUE, r.ret)
    /\ p_n' = p_n + 1
    /\ UNCHANGED p_engine
    /\ UNCHANGED notPrepareVars

----------------------------------------------------------------------------
(* Formats, buffers and the engine of a decoder session *)

BufIds == 1..MaxBufs

\* engine->buffer_size > 0: the H.264 and H.265 decoders and the H.264
\* encoder keep an engine buffer per picture buffer, MPEG-2 keeps none.
HasBufferSize(e) == e # "mpeg2"

\* cedrus_context_queue_busy_check: vb2_is_busy of the queue.
cedrus_context_queue_busy_check(bufs, q) == bufs[q] > 0

\* cedrus_dec_format_dynamic_check for a set-format on queue q.
cedrus_dec_format_dynamic_check(bufs, strm, cur_fmt, q, fmt) ==
    /\ q = "coded"
    /\ cedrus_context_queue_busy_check(bufs, q)
    /\ ~strm[q]
    /\ ~cedrus_context_queue_busy_check(bufs, "picture")
    /\ fmt = cur_fmt

\* cedrus_context_engine_update: the engine of the coded pixelformat. Each
\* engine has its own coded pixelformat, which the model names after it.
cedrus_context_engine_update(cur_engine, pixelformat) ==
    IF pixelformat \in ProcEngines("dec")
    THEN [ret |-> Success, engine |-> pixelformat]
    ELSE [ret |-> "ENODEV", engine |-> cur_engine]

\* cedrus_proc_s_fmt on queue q with pixelformat fmt: refused when the queue
\* of the format is busy and the change is not a dynamic one; a coded format
\* then selects the engine.
cedrus_proc_s_fmt(q, fmt) ==
    LET dynamic == cedrus_dec_format_dynamic_check(f_bufs, f_stream, f_pixfmt,
                                                   q, fmt)
        busy    == cedrus_context_queue_busy_check(f_bufs, q)
        upd     == cedrus_context_engine_update(f_engine, fmt)
    IN  IF ~dynamic /\ busy
        THEN [ret |-> "EINVAL", pixfmt |-> f_pixfmt, engine |-> f_engine]
        ELSE IF q = "coded"
        THEN [ret |-> upd.ret, pixfmt |-> fmt, engine |-> upd.engine]
        ELSE [ret |-> Success, pixfmt |-> f_pixfmt, engine |-> f_engine]

\* cedrus_context_buffer_init: a picture buffer gets an engine buffer of the
\* current engine when that engine has a buffer size.
cedrus_context_buffer_init(e, q) ==
    IF ~HasBufferSize(e) THEN NULL
    ELSE IF q = "picture" THEN e
    ELSE NULL

\* cedrus_context_buffer_cleanup: the buffer_cleanup wrapper of the current
\* engine runs on the engine buffer, whichever engine set it up. TRUE when
\* the callback of one engine ran on the buffer of another.
cedrus_context_buffer_cleanup(e, q, ebuf) ==
    /\ q = "picture"
    /\ ebuf # NULL
    /\ cedrus_engine_buffer_cleanup(Desc(e)).called
    /\ e # ebuf

\* The history of the MV column buffers before any job and cleanup.
NoMvLog ==
    [allocs |-> [i \in BufIds |-> 0],
     cleanup |-> [i \in BufIds |-> "none"],
     out |-> 0]

\* The MV column buffer in job_configure of the engine e for the output
\* picture buffer, whose engine buffer was set up by ebuf: the MPEG-2 decoder
\* has none; the H.264 and H.265 decoders allocate it when mv_col_buf_size
\* is 0 and reset the size when the allocation fails. On an engine buffer
\* that is NULL or of another engine the access is a fault.
MvColBufAllocate(e, ebuf, mv, alloc) ==
    IF e = "mpeg2" THEN [ret |-> Success, mv |-> mv, allocated |-> FALSE]
    ELSE IF ebuf # e THEN [ret |-> "fault", mv |-> mv, allocated |-> FALSE]
    ELSE IF mv THEN [ret |-> Success, mv |-> TRUE, allocated |-> FALSE]
    ELSE IF alloc THEN [ret |-> Success, mv |-> TRUE, allocated |-> TRUE]
    ELSE [ret |-> "ENOMEM", mv |-> FALSE, allocated |-> FALSE]

\* What cedrus_context_buffer_cleanup does to the MV column buffer of a
\* picture buffer: the buffer_cleanup callback of the current engine e frees
\* it when the size is set; an engine without the callback frees nothing,
\* and the engine buffer is freed with the MV column buffer left allocated.
MvColBufCleanup(e, ebuf, mv) ==
    IF ebuf = NULL THEN "none"
    ELSE IF ~cedrus_engine_buffer_cleanup(Desc(e)).called
    THEN (IF mv THEN "leaked" ELSE "nothing")
    ELSE IF e # ebuf THEN "fault"
    ELSE IF mv THEN "freed" ELSE "nothing"

InitFormat ==
    /\ f_engine = "mpeg2"
    /\ f_pixfmt = "mpeg2"
    /\ f_bufs = [q \in Queues |-> 0]
    /\ f_ebuf = [i \in BufIds |-> NULL]
    /\ f_stream = [q \in Queues |-> FALSE]
    /\ f_job = FALSE
    /\ f_confused = FALSE
    /\ f_mv = [i \in BufIds |-> FALSE]
    /\ f_mvlog = NoMvLog
    /\ f_last = [op |-> "open", queue |-> "none", ret |-> Success]

\* VIDIOC_S_FMT. A picture format does not select an engine; the model draws
\* coded formats from the pixelformats of the decoder's engines.
SetFormat(q) ==
    /\ \E fmt \in (IF q = "coded" THEN DecEngines ELSE {"picture"}) :
         LET r == cedrus_proc_s_fmt(q, fmt)
         IN  /\ f_pixfmt' = r.pixfmt
             /\ f_engine' = r.engine
             /\ f_last' = [op |-> "s_fmt", queue |-> q, ret |-> r.ret]
    /\ UNCHANGED <<f_bufs, f_ebuf, f_stream, f_job, f_confused, f_mv,
                   f_mvlog>>
    /\ UNCHANGED notFormatVars

\* VIDIOC_REQBUFS with count n on a queue that is not streaming: the buffers
\* the queue holds are cleaned up and freed, then n buffers are initialised.
ReqBufs(q, n) ==
    /\ ~f_stream[q]
    /\ f_bufs' = [f_bufs EXCEPT ![q] = n]
    /\ IF q = "picture"
       THEN /\ f_ebuf' = [i \in BufIds |->
                            IF i <= n
                            THEN cedrus_context_buffer_init(f_engine, q)
                            ELSE NULL]
            /\ f_confused' =
                 (f_confused \/
                  \E i \in BufIds :
                     cedrus_context_buffer_cleanup(f_engine, q, f_ebuf[i]))
            /\ f_mv' = [i \in BufIds |-> FALSE]
            /\ f_mvlog' =
                 [f_mvlog EXCEPT
                    !.allocs = [i \in BufIds |-> 0],
                    !.cleanup = [i \in BufIds |->
                                   MvColBufCleanup(f_engine, f_ebuf[i],
                                                   f_mv[i])]]
       ELSE UNCHANGED <<f_ebuf, f_confused, f_mv, f_mvlog>>
    /\ f_last' = [op |-> "reqbufs", queue |-> q, ret |-> Success]
    /\ UNCHANGED <<f_engine, f_pixfmt, f_stream, f_job>>
    /\ UNCHANGED notFormatVars

\* VIDIOC_STREAMON on a queue that holds buffers.
StreamOn(q) ==
    /\ ~f_stream[q]
    /\ f_bufs[q] > 0
    /\ f_stream' = [f_stream EXCEPT ![q] = TRUE]
    /\ f_last' = [op |-> "streamon", queue |-> q, ret |-> Success]
    /\ UNCHANGED <<f_engine, f_pixfmt, f_bufs, f_ebuf, f_job, f_confused,
                   f_mv, f_mvlog>>
    /\ UNCHANGED notFormatVars

\* VIDIOC_STREAMOFF; the m2m framework lets a running job end first.
StreamOff(q) ==
    /\ f_stream[q]
    /\ ~f_job
    /\ f_stream' = [f_stream EXCEPT ![q] = FALSE]
    /\ f_last' = [op |-> "streamoff", queue |-> q, ret |-> Success]
    /\ UNCHANGED <<f_engine, f_pixfmt, f_bufs, f_ebuf, f_job, f_confused,
                   f_mv, f_mvlog>>
    /\ UNCHANGED notFormatVars

\* The m2m framework runs a job of the session when both queues stream: the
\* job outputs to a picture buffer, and job_configure of the H.264 or H.265
\* decoder allocates the buffer's MV column buffer when it has none; a job
\* that fails is finished at once.
JobBegin ==
    /\ ~f_job
    /\ \A q \in Queues : f_stream[q]
    /\ \E out \in 1..f_bufs["picture"] : \E alloc \in BOOLEAN :
         LET r == MvColBufAllocate(f_engine, f_ebuf[out], f_mv[out], alloc)
         IN  /\ f_job' = (r.ret = Success)
             /\ f_mv' = [f_mv EXCEPT ![out] = r.mv]
             /\ f_confused' = (f_confused \/ r.ret = "fault")
             /\ f_mvlog' = [f_mvlog EXCEPT
                              !.allocs[out] = @ + (IF r.allocated THEN 1
                                                   ELSE 0),
                              !.out = out]
             /\ f_last' = [op |-> "job_run", queue |-> "none",
                           ret |-> r.ret]
    /\ UNCHANGED <<f_engine, f_pixfmt, f_bufs, f_ebuf, f_stream>>
    /\ UNCHANGED notFormatVars

JobEnd ==
    /\ f_job
    /\ f_job' = FALSE
    /\ f_last' = [op |-> "job_finish", queue |-> "none", ret |-> Success]
    /\ UNCHANGED <<f_engine, f_pixfmt, f_bufs, f_ebuf, f_stream, f_confused,
                   f_mv, f_mvlog>>
    /\ UNCHANGED notFormatVars

----------------------------------------------------------------------------
(* The H.264 encoder: controls, GOP state, headers and job completion *)

CEDRUS_ENC_H264_STEP_START == 0

CEDRUS_ENC_H264_STEP_SPS == 1

CEDRUS_ENC_H264_STEP_PPS == 2

CEDRUS_ENC_H264_STEP_SLICE == 3

\* state->gop_index is an unsigned int. Integers of the model are 32 bits
\* signed, so the counter is kept as two 16-bit halves.
Half == 65536

U32Inc(u) ==
    IF u.lo + 1 < Half THEN [hi |-> u.hi, lo |-> u.lo + 1]
    ELSE IF u.hi + 1 < Half THEN [hi |-> u.hi + 1, lo |-> 0]
    ELSE [hi |-> 0, lo |-> 0]

\* u % m for 0 < m <= USHRT_MAX.
U32Mod(u, m) == (u.hi * (Half % m) + u.lo) % m

U32Zero == [hi |-> 0, lo |-> 0]

BIT(n) == 2 ^ n

\* The controls of the model and the values the model writes to them.
GopCtrls == {"gop_closure", "gop_size", "gop_open_i_period"}

HeaderCtrls == {"profile", "level", "entropy_mode"}

CtrlIds == GopCtrls \cup HeaderCtrls \cup {"prepend_sps_pps_idr"}

CtrlValues(id) ==
    CASE id = "gop_closure" -> {0, 1}
      [] id = "gop_size" -> 1..MaxGop
      [] id = "gop_open_i_period" -> 1..MaxGop
      [] id = "prepend_sps_pps_idr" -> {0, 1}
      [] id = "profile" -> {"baseline", "main"}
      [] id = "level" -> {40, 41}
      [] id = "entropy_mode" -> {"cavlc", "cabac"}

cedrus_enc_h264_profile_cabac_check(profile) == profile # "baseline"

\* cedrus_enc_h264_ctrl_validate (try_ctrl) of the new value val.
cedrus_enc_h264_ctrl_validate(ctrl, id, val) ==
    IF /\ id = "entropy_mode"
       /\ val = "cabac"
       /\ ~cedrus_enc_h264_profile_cabac_check(ctrl.profile)
    THEN "EINVAL"
    ELSE Success

StepDownTo(st, step) ==
    IF st.step > step THEN [st EXCEPT !.step = step] ELSE st

\* cedrus_enc_h264_ctrl_prepare (s_ctrl) for control id while streaming. The
\* callback runs before the framework stores the new value, and it copies
\* ctrl->cur.val, the value the control held until now. A profile without
\* CABAC sets the entropy-mode control to CAVLC, which runs the callback for
\* that control in turn.
cedrus_enc_h264_ctrl_prepare(c, st, ctrl, id) ==
    LET c1 == [c EXCEPT ![id] = ctrl[id]]
    IN  CASE id = "profile" ->
               IF /\ ~cedrus_enc_h264_profile_cabac_check(c1.profile)
                  /\ ctrl.entropy_mode # "cavlc"
               THEN [ctx   |-> [c1 EXCEPT !.entropy_mode = ctrl.entropy_mode],
                     state |-> StepDownTo(st, CEDRUS_ENC_H264_STEP_SPS),
                     ctrl  |-> [ctrl EXCEPT !.entropy_mode = "cavlc"]]
               ELSE [ctx   |-> c1,
                     state |-> StepDownTo(st, CEDRUS_ENC_H264_STEP_SPS),
                     ctrl  |-> ctrl]
          [] id = "level" ->
               [ctx   |-> c1,
                state |-> StepDownTo(st, CEDRUS_ENC_H264_STEP_SPS),
                ctrl  |-> ctrl]
          [] id = "entropy_mode" ->
               [ctx   |-> c1,
                state |-> StepDownTo(st, CEDRUS_ENC_H264_STEP_PPS),
                ctrl  |-> ctrl]
          [] OTHER -> [ctx |-> c1, state |-> st, ctrl |-> ctrl]

\* A faulty GOP rule: the I period of the open GOP is not looked at.
GopFrameType_no_period(c, gop_index) ==
    IF gop_index = U32Zero THEN "IDR" ELSE "P"

\* cedrus_enc_h264_job_prepare, GOP: the frame type the GOP index selects.
GopFrameType(c, gop_index) ==
    IF c.gop_closure # 0
    THEN IF gop_index = U32Zero THEN "IDR" ELSE "P"
    ELSE IF gop_index = U32Zero THEN "IDR"
         ELSE IF /\ c.gop_open_i_period > 0
                 /\ U32Mod(gop_index, c.gop_open_i_period) = 0
              THEN "I"
              ELSE "P"

\* A faulty advance: the index of a closed GOP is not reduced.
GopAdvance_no_wrap(c, gop_index) == U32Inc(gop_index)

\* state->gop_index++, reduced modulo gop_size in a closed GOP.
GopAdvance(c, gop_index) ==
    IF c.gop_closure # 0
    THEN [hi |-> 0, lo |-> U32Mod(U32Inc(gop_index), c.gop_size)]
    ELSE U32Inc(gop_index)

\* A faulty identification: an IDR frame does not restart the counters.
FrameIdentify_no_reset(c, st, frame_type) ==
    [job   |-> [frame_type |-> frame_type, idr_pic_id |-> 0,
                frame_num |-> st.frame_num,
                pic_order_cnt_lsb |-> st.pic_order_cnt_lsb],
     state |-> [st EXCEPT
                  !.frame_num = (st.frame_num + 1) % BIT(8),
                  !.pic_order_cnt_lsb = (st.pic_order_cnt_lsb + 2) % BIT(8)]]

\* cedrus_enc_h264_job_prepare, identification: an IDR frame restarts
\* frame_num and pic_order_cnt_lsb and, with prepend_sps_pps_idr, the
\* headers; the job takes the counters, which then advance modulo
\* BIT(log2_max_frame_num) and BIT(log2_max_pic_order_cnt_lsb), both 8.
FrameIdentify(c, st, frame_type) ==
    LET idr == frame_type = "IDR"
        s1  == IF idr
               THEN [st EXCEPT
                       !.frame_num = 0,
                       !.pic_order_cnt_lsb = 0,
                       !.step = IF c.prepend_sps_pps_idr # 0
                                THEN CEDRUS_ENC_H264_STEP_SPS ELSE @]
               ELSE st
    IN  [job   |-> [frame_type |-> frame_type, idr_pic_id |-> 0,
                    frame_num |-> s1.frame_num,
                    pic_order_cnt_lsb |-> s1.pic_order_cnt_lsb],
         state |-> [s1 EXCEPT
                      !.frame_num = (s1.frame_num + 1) % BIT(8),
                      !.pic_order_cnt_lsb =
                          (s1.pic_order_cnt_lsb + 2) % BIT(8)]]

\* A faulty job_prepare: the force-key-frame request stays pending.
cedrus_enc_h264_job_prepare_frame_keep_force(c, st) ==
    LET t   == IF c.force_key_frame THEN "IDR"
               ELSE GopFrameType(c, st.gop_index)
        s1  == [st EXCEPT !.gop_index = GopAdvance(c, st.gop_index)]
        id  == FrameIdentify(c, s1, t)
    IN  [ctx |-> c, state |-> id.state, job |-> id.job]

\* cedrus_enc_h264_job_prepare: frame type by the GOP rule, IDR when a key
\* frame was requested (the request is consumed), GOP index advanced, then
\* the identification of the frame.
cedrus_enc_h264_job_prepare_frame(c, st) ==
    LET t   == IF c.force_key_frame THEN "IDR"
               ELSE GopFrameType(c, st.gop_index)
        s1  == [st EXCEPT !.gop_index = GopAdvance(c, st.gop_index)]
        id  == FrameIdentify(c, s1, t)
    IN  [ctx   |-> [c EXCEPT !.force_key_frame = FALSE],
         state |-> id.state,
         job   |-> id.job]

\* A faulty header loop: the SPS step emits nothing.
cedrus_enc_h264_job_configure_headers_no_sps(step, out) ==
    CASE step <= CEDRUS_ENC_H264_STEP_PPS ->
           [step |-> CEDRUS_ENC_H264_STEP_SLICE,
            out |-> out \o <<"pps", "slice">>]
      [] OTHER ->
           [step |-> CEDRUS_ENC_H264_STEP_SLICE, out |-> Append(out, "slice")]

\* cedrus_enc_h264_job_configure_headers: the loop over state->step.
RECURSIVE cedrus_enc_h264_job_configure_headers(_, _)
cedrus_enc_h264_job_configure_headers(step, out) ==
    CASE step = CEDRUS_ENC_H264_STEP_START ->
           cedrus_enc_h264_job_configure_headers(
               CEDRUS_ENC_H264_STEP_SPS, out)
      [] step = CEDRUS_ENC_H264_STEP_SPS ->
           cedrus_enc_h264_job_configure_headers(
               CEDRUS_ENC_H264_STEP_PPS, Append(out, "sps"))
      [] step = CEDRUS_ENC_H264_STEP_PPS ->
           cedrus_enc_h264_job_configure_headers(
               CEDRUS_ENC_H264_STEP_SLICE, Append(out, "pps"))
      [] step = CEDRUS_ENC_H264_STEP_SLICE ->
           [step |-> step, out |-> Append(out, "slice")]

\* The format type of a queue: the coded format of the encoder is on the
\* capture queue, the m2m destination; its picture format on the output
\* queue, the m2m source.
cedrus_proc_format_type(role, buffer) ==
    IF role = "dec"
    THEN IF buffer = "src" THEN "coded" ELSE "picture"
    ELSE IF buffer = "src" THEN "picture" ELSE "coded"

\* cedrus_context_job_run, job pointers: buffer_coded is the next source
\* buffer and buffer_picture the next destination buffer, whatever the role.
JobBuffers == [buffer_coded |-> "src", buffer_picture |-> "dst"]

\* The buffers as user space queued them: the picture to encode on the
\* output queue, an empty buffer on the capture queue.
QueuedBufs ==
    [src |-> [payload |-> PictureBytes, flags |-> {}],
     dst |-> [payload |-> 0, flags |-> {}]]

\* cedrus_enc_h264_job_finish on the buffer ctx->job.buffer_coded; length is
\* the value of the bit length register.
cedrus_enc_h264_job_finish(bufs, job_state, frame_type, length) ==
    LET b == JobBuffers.buffer_coded
    IN  IF job_state # "DONE"
        THEN [bufs EXCEPT ![b].payload = 0]
        ELSE [bufs EXCEPT
                ![b].payload = length \div 8,
                ![b].flags =
                    @ \cup (CASE frame_type \in {"IDR", "I"} -> {"KEYFRAME"}
                              [] frame_type = "P" -> {"PFRAME"}
                              [] OTHER -> {})]

NoEncJob ==
    [frame_type |-> "none", idr_pic_id |-> 0, frame_num |-> 0,
     pic_order_cnt_lsb |-> 0]

\* The number of jobs since stream start, which is not bounded by the width
\* of a counter: wraps * 2^32 + hi * 2^16 + lo.
JobCountInc(n) ==
    LET u == U32Inc([hi |-> n.hi, lo |-> n.lo])
    IN  [wraps |-> IF u = U32Zero THEN n.wraps + 1 ELSE n.wraps,
         hi |-> u.hi, lo |-> u.lo]

JobCountMod(n, m) ==
    (n.wraps * (((Half % m) * (Half % m)) % m) + n.hi * (Half % m) + n.lo) % m

\* The encoder after cedrus_enc_h264_setup at stream start, the controls
\* holding what user space set before (v4l2_ctrl_handler_setup applies them),
\* or the same stream `before` jobs short of its 2^32-th job, no control
\* written and no key frame requested since the start (an open GOP, whose
\* only IDR frame was then the first).
EncStreamState(ctrl, before) ==
    LET fresh == before = 0
        lo    == Half - before
        gi    == [hi |-> Half - 1, lo |-> lo]
        c     == [gop_closure |-> ctrl.gop_closure,
                  gop_size |-> ctrl.gop_size,
                  gop_open_i_period |-> ctrl.gop_open_i_period,
                  prepend_sps_pps_idr |-> ctrl.prepend_sps_pps_idr,
                  profile |-> ctrl.profile,
                  level |-> ctrl.level,
                  entropy_mode |-> ctrl.entropy_mode,
                  force_key_frame |-> FALSE]
        prev  == [hi |-> Half - 1, lo |-> lo - 1]
    IN  [ctrl  |-> ctrl,
         ctx   |-> c,
         state |-> IF fresh
                   THEN [step |-> CEDRUS_ENC_H264_STEP_START,
                         gop_index |-> U32Zero,
                         frame_num |-> 0, pic_order_cnt_lsb |-> 0]
                   ELSE [step |-> CEDRUS_ENC_H264_STEP_SLICE,
                         gop_index |-> gi,
                         frame_num |-> lo % BIT(8),
                         pic_order_cnt_lsb |-> (2 * lo) % BIT(8)],
         hist  |-> [n |-> IF fresh THEN [wraps |-> 0, hi |-> 0, lo |-> 0]
                          ELSE [wraps |-> 0, hi |-> Half - 1, lo |-> lo],
                    jobs |-> 0,
                    writes |-> 0,
                    steady |-> TRUE,
                    forced |-> FALSE,
                    changed |-> {},
                    cause |-> {},
                    idr_prepend |-> FALSE,
                    prev |-> IF fresh THEN NoEncJob
                             ELSE [frame_type |-> GopFrameType(c, prev),
                                   idr_pic_id |-> 0,
                                   frame_num |-> (lo - 1) % BIT(8),
                                   pic_order_cnt_lsb |->
                                       (2 * (lo - 1)) % BIT(8)],
                    done |-> "none",
                    length |-> 0,
                    starts |-> 0]]

\* The controls a stream can start with.
StartCtrls ==
    { [gop_closure |-> gc, gop_size |-> gs, gop_open_i_period |-> ip,
       prepend_sps_pps_idr |-> pp, profile |-> "main", level |-> 40,
       entropy_mode |-> "cavlc"] :
        gc \in {0, 1}, gs \in 1..MaxGop, ip \in 1..MaxGop, pp \in {0, 1} }

InitEnc ==
    \E ctrl \in StartCtrls :
      \E before \in (IF ctrl.gop_closure = 0
                      THEN {0, NearWrap, NearWrap + BIT(8)}
                      ELSE {0}) :
        LET s == EncStreamState(ctrl, before)
        IN  /\ enc_ctrl = s.ctrl
            /\ enc_ctx = s.ctx
            /\ enc_state = s.state
            /\ enc_hist = s.hist
            /\ enc_job = NoEncJob
            /\ enc_pc = "idle"
            /\ enc_out = <<>>
            /\ enc_bufs = QueuedBufs

\* VIDIOC_S_CTRL of a new value on one control while streaming, the max-th
\* write at most: try_ctrl, s_ctrl, then the framework stores the value.
StreamingCtrlWrite(id, val, max) ==
    /\ enc_pc # "off"
    /\ enc_hist.writes < max
    /\ val # enc_ctrl[id]
    /\ LET ok == cedrus_enc_h264_ctrl_validate(enc_ctrl, id, val) = Success
           r  == cedrus_enc_h264_ctrl_prepare(enc_ctx, enc_state, enc_ctrl,
                                              id)
       IN  /\ enc_ctx' = IF ok THEN r.ctx ELSE enc_ctx
           /\ enc_state' = IF ok THEN r.state ELSE enc_state
           /\ enc_ctrl' = IF ok THEN [r.ctrl EXCEPT ![id] = val] ELSE enc_ctrl
           /\ enc_hist' =
                [enc_hist EXCEPT
                   !.writes = @ + 1,
                   !.steady = @ /\ ~(ok /\ id \in GopCtrls),
                   !.changed = IF ok /\ id \in HeaderCtrls
                               THEN @ \cup {id} ELSE @]
    /\ UNCHANGED <<enc_job, enc_pc, enc_out, enc_bufs>>
    /\ UNCHANGED notEncVars

EncCtrlWrite(id, val) == StreamingCtrlWrite(id, val, MaxCtrlWrites)

\* VIDIOC_S_CTRL of the force-key-frame button while streaming.
EncForceKeyFrame ==
    /\ enc_hist.writes < MaxCtrlWrites
    /\ enc_ctx' = [enc_ctx EXCEPT !.force_key_frame = TRUE]
    /\ enc_hist' = [enc_hist EXCEPT !.writes = @ + 1, !.forced = TRUE]
    /\ UNCHANGED <<enc_ctrl, enc_state, enc_job, enc_pc, enc_out, enc_bufs>>
    /\ UNCHANGED notEncVars

\* cedrus_context_job_run up to the end of job_prepare, which runs under the
\* lock of the control handler.
EncJobPrepare ==
    /\ enc_pc = "idle"
    /\ enc_hist.jobs < MaxEncJobs
    /\ LET r == cedrus_enc_h264_job_prepare_frame(enc_ctx, enc_state)
       IN  /\ enc_ctx' = r.ctx
           /\ enc_state' = r.state
           /\ enc_job' = r.job
           /\ enc_hist' =
                [enc_hist EXCEPT
                   !.jobs = @ + 1,
                   !.idr_prepend = /\ r.job.frame_type = "IDR"
                                   /\ enc_ctx.prepend_sps_pps_idr # 0,
                   !.done = "none",
                   !.length = 0]
    /\ enc_pc' = "prepared"
    /\ enc_out' = <<>>
    /\ enc_bufs' = QueuedBufs
    /\ UNCHANGED enc_ctrl
    /\ UNCHANGED notEncVars

\* The rest of cedrus_context_job_run: the configuration of the picture
\* format, which can fail and then finishes the job in error state, and
\* job_configure, which emits the headers before the job is triggered. The
\* configuration of the encoder's coded format has no error return.
EncJobConfigure ==
    /\ enc_pc = "prepared"
    /\ \E fail \in {"none", "picture"} :
         IF fail # "none"
         THEN /\ enc_bufs' = cedrus_enc_h264_job_finish(
                                 enc_bufs, "ERROR", enc_job.frame_type, 0)
              /\ enc_hist' = [enc_hist EXCEPT
                                !.n = JobCountInc(@),
                                !.prev = enc_job,
                                !.done = "ERROR"]
              /\ enc_pc' = "idle"
              /\ UNCHANGED <<enc_state, enc_out>>
         ELSE LET h == cedrus_enc_h264_job_configure_headers(
                           enc_state.step, <<>>)
              IN  /\ enc_state' = [enc_state EXCEPT !.step = h.step]
                  /\ enc_out' = h.out
                  /\ enc_hist' = [enc_hist EXCEPT
                                    !.cause = enc_hist.changed,
                                    !.changed = {}]
                  /\ enc_pc' = "running"
                  /\ UNCHANGED enc_bufs
    /\ UNCHANGED <<enc_ctrl, enc_ctx, enc_job>>
    /\ UNCHANGED notEncVars

\* cedrus_context_job_finish from the interrupt handler (done or error) or
\* from the watchdog (error), the bit length register holding length.
EncJobComplete ==
    /\ enc_pc = "running"
    /\ \E job_state \in {"DONE", "ERROR"} : \E length \in BitLengths :
         /\ enc_bufs' = cedrus_enc_h264_job_finish(
                            enc_bufs, job_state, enc_job.frame_type, length)
         /\ enc_hist' = [enc_hist EXCEPT
                           !.n = JobCountInc(@),
                           !.prev = enc_job,
                           !.done = job_state,
                           !.length = length]
    /\ enc_pc' = "idle"
    /\ UNCHANGED <<enc_ctrl, enc_ctx, enc_state, enc_job, enc_out>>
    /\ UNCHANGED notEncVars

----------------------------------------------------------------------------
(* The H.264 encoder: profile and entropy mode, before and while streaming *)

\* The controls of the encoder in the order of cedrus_enc_h264_ctrl_configs,
\* which is the order of the handler's list.
CtrlOrder ==
    <<"prepend_sps_pps_idr", "profile", "level", "entropy_mode",
      "gop_closure", "gop_size", "gop_open_i_period">>

\* v4l2_ctrl_handler_setup from control i of the list on: s_ctrl of each
\* control, its current value being the value it is set to.
RECURSIVE v4l2_ctrl_handler_setup(_, _)
v4l2_ctrl_handler_setup(acc, i) ==
    IF i > Len(CtrlOrder) THEN acc
    ELSE v4l2_ctrl_handler_setup(
             cedrus_enc_h264_ctrl_prepare(acc.ctx, acc.state, acc.ctrl,
                                          CtrlOrder[i]),
             i + 1)

\* An encoder session that is not streaming yet: the controls hold values,
\* there is no codec context (enc_ctx and enc_state have no meaning).
InitProfile ==
    LET ctrl == [gop_closure |-> 1, gop_size |-> 2, gop_open_i_period |-> 2,
                 prepend_sps_pps_idr |-> 0, profile |-> "main",
                 level |-> 40, entropy_mode |-> "cavlc"]
        s == EncStreamState(ctrl, 0)
    IN  /\ enc_ctrl = ctrl
        /\ enc_ctx = s.ctx
        /\ enc_state = s.state
        /\ enc_hist = s.hist
        /\ enc_job = NoEncJob
        /\ enc_pc = "off"
        /\ enc_out = <<>>
        /\ enc_bufs = QueuedBufs

\* VIDIOC_S_CTRL before streaming: try_ctrl, then s_ctrl, which returns at
\* once for want of a codec context, then the framework stores the value.
ProfileWriteIdle(id, val) ==
    /\ enc_pc = "off"
    /\ enc_hist.writes < MaxProfileWrites
    /\ val # enc_ctrl[id]
    /\ LET ok == cedrus_enc_h264_ctrl_validate(enc_ctrl, id, val) = Success
       IN  enc_ctrl' = IF ok THEN [enc_ctrl EXCEPT ![id] = val] ELSE enc_ctrl
    /\ enc_hist' = [enc_hist EXCEPT !.writes = @ + 1]
    /\ UNCHANGED <<enc_ctx, enc_state, enc_job, enc_pc, enc_out, enc_bufs>>
    /\ UNCHANGED notEncVars

\* Stream start: cedrus_enc_h264_setup resets the state and applies the
\* controls with v4l2_ctrl_handler_setup.
ProfileStreamOn ==
    /\ enc_pc = "off"
    /\ LET s == EncStreamState(enc_ctrl, 0)
           r == v4l2_ctrl_handler_setup(
                    [ctx |-> s.ctx, state |-> s.state, ctrl |-> enc_ctrl], 1)
       IN  /\ enc_ctrl' = r.ctrl
           /\ enc_ctx' = r.ctx
           /\ enc_state' = r.state
           /\ enc_hist' = [s.hist EXCEPT
                             !.writes = enc_hist.writes,
                             !.starts = enc_hist.starts + 1]
    /\ enc_pc' = "idle"
    /\ UNCHANGED <<enc_job, enc_out, enc_bufs>>
    /\ UNCHANGED notEncVars

\* Stream stop on the coded queue with no job in flight, the last stream of
\* the session excepted: cedrus_context_stop_streaming frees the codec
\* context, whose fields keep in the model what the stream left in them
\* (the next stream start takes a zeroed context and none of them). The
\* controls keep their values.
ProfileStreamOff ==
    /\ enc_pc = "idle"
    /\ enc_hist.starts < MaxStreamStarts
    /\ enc_pc' = "off"
    /\ UNCHANGED <<enc_ctrl, enc_ctx, enc_state, enc_job, enc_hist, enc_out,
                   enc_bufs>>
    /\ UNCHANGED notEncVars

ProfileWrite(id, val) == StreamingCtrlWrite(id, val, MaxProfileWrites)

----------------------------------------------------------------------------
(* The bit writer of the H.264 encoder *)

\* __fls(x): the index of the most significant set bit of x, for x > 0.
RECURSIVE fls(_)
fls(x) == IF x <= 1 THEN 0 ELSE 1 + fls(x \div 2)

\* cedrus_enc_h264_coded_append: the hardware puts the low count bits of
\* value into the stream, most significant bit first, and counts them in its
\* bit length register.
cedrus_enc_h264_coded_append(stream, value, count) ==
    stream \o [i \in 1..count |-> (value \div (2 ^ (count - i))) % 2]

\* A faulty ue: the leading zero bits are left out.
cedrus_enc_h264_coded_ue_no_prefix(stream, value) ==
    LET bits_count == fls(value + 1) + 1
    IN  [stream |-> cedrus_enc_h264_coded_append(stream, value + 1,
                                                 bits_count),
         value |-> value + 1, count |-> bits_count]

\* cedrus_enc_h264_coded_ue, with the value and the bit count it appends.
cedrus_enc_h264_coded_ue(stream, value) ==
    LET bits_count == 2 * fls(value + 1) + 1
    IN  [stream |-> cedrus_enc_h264_coded_append(stream, value + 1,
                                                 bits_count),
         value |-> value + 1, count |-> bits_count]

\* A faulty se: the codes of v and -v are exchanged.
cedrus_enc_h264_coded_se_swapped(stream, value) ==
    LET value_ue == IF value > 0 THEN 2 * value ELSE (-2) * value + 1
    IN  [value_ue |-> value_ue,
         ue |-> cedrus_enc_h264_coded_ue(stream, value_ue)]

\* cedrus_enc_h264_coded_se, with the unsigned value it hands to ue.
cedrus_enc_h264_coded_se(stream, value) ==
    LET value_ue == IF value > 0 THEN 2 * value - 1 ELSE (-2) * value
    IN  [value_ue |-> value_ue,
         ue |-> cedrus_enc_h264_coded_ue(stream, value_ue)]

\* A faulty align: a whole byte is appended to an aligned stream.
cedrus_enc_h264_coded_align_always(stream) ==
    cedrus_enc_h264_coded_append(stream, 0, 8 - (Len(stream) % 8))

\* cedrus_enc_h264_coded_align: the bit length register holds the number of
\* bits in the stream.
cedrus_enc_h264_coded_align(stream) ==
    LET bits_count == Len(stream) % 8
    IN  IF bits_count = 0 THEN stream
        ELSE cedrus_enc_h264_coded_append(stream, 0, 8 - bits_count)

NoCoded == [op |-> "none", arg |-> 0, value |-> 0, count |-> 0, from |-> 0]

\* The stream after cedrus_enc_h264_job_configure cleared the bit length
\* register.
InitBits ==
    /\ b_stream = <<>>
    /\ b_last = NoCoded

CodedUe(v) ==
    LET r == cedrus_enc_h264_coded_ue(b_stream, v)
    IN  /\ Len(r.stream) <= MaxBits
        /\ b_stream' = r.stream
        /\ b_last' = [op |-> "ue", arg |-> v, value |-> r.value,
                      count |-> r.count, from |-> Len(b_stream)]
        /\ UNCHANGED notBitsVars

CodedSe(v) ==
    LET r == cedrus_enc_h264_coded_se(b_stream, v)
    IN  /\ Len(r.ue.stream) <= MaxBits
        /\ b_stream' = r.ue.stream
        /\ b_last' = [op |-> "se", arg |-> v, value |-> r.value_ue,
                      count |-> r.ue.count, from |-> Len(b_stream)]
        /\ UNCHANGED notBitsVars

\* cedrus_enc_h264_coded_bit.
CodedBit(v) ==
    /\ Len(b_stream) < MaxBits
    /\ b_stream' = cedrus_enc_h264_coded_append(b_stream, v, 1)
    /\ b_last' = [op |-> "bit", arg |-> v, value |-> v, count |-> 1,
                  from |-> Len(b_stream)]
    /\ UNCHANGED notBitsVars

CodedAlign ==
    /\ b_stream' = cedrus_enc_h264_coded_align(b_stream)
    /\ Len(b_stream') <= MaxBits + 7
    /\ b_last' = [op |-> "align", arg |-> 0, value |-> 0,
                  count |-> Len(b_stream') - Len(b_stream),
                  from |-> Len(b_stream)]
    /\ UNCHANGED notBitsVars

----------------------------------------------------------------------------
(* H.264 decoding: the frame list of cedrus_dec_h264.c *)

CEDRUS_DEC_H264_FRAME_NUM == 18

\* Picture buffers of the session's picture queue.
PicBufs == 1..MaxPics

\* Timestamps name pictures: one more than there are buffers, so that a new
\* picture can always be named.  0 is the timestamp of a buffer that holds
\* no picture yet.
Timestamps == 1..(MaxPics + 1)

DpbFlags == {{}, {"VALID"}, {"VALID", "ACTIVE"}}

\* The DPBs a job is given: entry i refers to timestamp i, and the valid
\* entries of one DPB are all active or all not.
Dpbs ==
    {dpb \in [Timestamps -> DpbFlags] :
        \A i, j \in Timestamps :
            (dpb[i] # {} /\ dpb[j] # {}) => dpb[i] = dpb[j]}

\* The timestamps a job carries for the picture buffer out: the one the
\* buffer has (the picture is decoded further: second field, next slice), or
\* one that no buffer has; timestamps that no buffer has are alike, the
\* lowest stands for them.
JobTimestamps(bufs, out) ==
    LET free == {t \in Timestamps : \A b \in PicBufs : bufs[b].ts # t}
    IN  {bufs[out].ts, CHOOSE t \in free : \A o \in free : t <= o} \ {0}

Slots == 0..(CEDRUS_DEC_H264_FRAME_NUM - 1)

\* vb2_find_buffer walks the buffers of the queue in index order; 0 is the
\* null pointer.
cedrus_buffer_picture_find(bufs, timestamp) ==
    LET found == {b \in DOMAIN bufs : bufs[b].ts = timestamp}
    IN  IF found = {} THEN 0
        ELSE CHOOSE b \in found : \A o \in found : b <= o

find_first_zero_bit_zero(used, size) == 0

\* A faulty search: it starts after the highest bit that is set.
find_first_zero_bit_after_last(used, size) ==
    IF used = {} THEN 0
    ELSE LET top == CHOOSE i \in used : \A o \in used : o <= i
         IN  IF top + 1 < size THEN top + 1 ELSE size

find_first_zero_bit(used, size) ==
    LET free == {i \in 0..(size - 1) : i \notin used}
    IN  IF free = {} THEN size
        ELSE CHOOSE i \in free : \A o \in free : i <= o

\* The loop of cedrus_write_frame_list over decode->dpb, from entry i on.
RECURSIVE FrameListEntries(_, _, _, _, _)
FrameListEntries(bufs, timestamp, dpb, i, acc) ==
    IF i \notin DOMAIN dpb THEN acc
    ELSE
        LET ref == cedrus_buffer_picture_find(bufs, i)
            position == bufs[ref].position
            used == acc.used_dpbs \cup {position}
        IN  IF "VALID" \notin dpb[i]
            THEN FrameListEntries(bufs, timestamp, dpb, i + 1, acc)
            ELSE IF ref = 0
            THEN FrameListEntries(bufs, timestamp, dpb, i + 1, acc)
            ELSE IF timestamp = i
            THEN FrameListEntries(bufs, timestamp, dpb, i + 1,
                     [acc EXCEPT !.used_dpbs = used, !.output = position])
            ELSE IF "ACTIVE" \notin dpb[i]
            THEN FrameListEntries(bufs, timestamp, dpb, i + 1,
                     [acc EXCEPT !.used_dpbs = used])
            ELSE FrameListEntries(bufs, timestamp, dpb, i + 1,
                     [acc EXCEPT !.used_dpbs = used,
                                 !.pic_list[position] = i])

OutputPosition_first_fit(output, used_dpbs) ==
    find_first_zero_bit(used_dpbs, CEDRUS_DEC_H264_FRAME_NUM)

\* The slot of the output picture.
OutputPosition(output, used_dpbs) ==
    IF output >= 0 THEN output
    ELSE find_first_zero_bit(used_dpbs, CEDRUS_DEC_H264_FRAME_NUM)

\* cedrus_write_frame_list for the picture buffer out, which carries the
\* timestamp of the job.  pic_list is the table written to the SRAM: the
\* timestamp of the picture each record describes, 0 for a zeroed record.
cedrus_write_frame_list(bufs, out, dpb) ==
    LET timestamp == bufs[out].ts
        loop == FrameListEntries(bufs, timestamp, dpb, 1,
                    [used_dpbs |-> {}, output |-> -1,
                     pic_list |-> [s \in Slots |-> 0]])
        position == OutputPosition(loop.output, loop.used_dpbs)
    IN  [bufs |-> [bufs EXCEPT ![out].position = position],
         position |-> position,
         output |-> loop.output,
         used_dpbs |-> loop.used_dpbs,
         pic_list |-> IF position \in Slots
                      THEN [loop.pic_list EXCEPT ![position] = timestamp]
                      ELSE loop.pic_list]

\* The slot of every picture a job names: its valid DPB entries that a buffer
\* holds, and its output picture.
SlotsOf(bufs, out, dpb) ==
    LET named == {t \in Timestamps :
                     /\ cedrus_buffer_picture_find(bufs, t) # 0
                     /\ \/ "VALID" \in dpb[t]
                        \/ t = bufs[out].ts}
    IN  [t \in named |-> bufs[cedrus_buffer_picture_find(bufs, t)].position]

NoNamed == [t \in {} |-> 0]

\* Buffers as cedrus_context_buffer_init leaves them (kzalloc).
InitDpb ==
    /\ d_bufs = [b \in PicBufs |-> [ts |-> 0, position |-> 0]]
    /\ d_last = [n |-> 0, out |-> 0, ts |-> 0, dpb |-> [t \in Timestamps |-> {}],
                 before |-> 0, position |-> 0, output |-> -1,
                 used_dpbs |-> {}, pic_list |-> [s \in Slots |-> 0],
                 slots |-> NoNamed, prev |-> NoNamed, listed |-> TRUE]

\* One H.264 decode job up to the frame list: cedrus_context_job_run copies
\* the timestamp of the coded buffer to the picture buffer, job_configure
\* writes the frame list.  No two buffers carry one timestamp.  listed tells
\* whether every job so far named in its DPB only pictures that the job
\* before it had named.
H264DecJob(out, t, dpb) ==
    /\ d_last.n < MaxDecJobs
    /\ t \in JobTimestamps(d_bufs, out)
    /\ LET bufs == [d_bufs EXCEPT ![out].ts = t]
           r == cedrus_write_frame_list(bufs, out, dpb)
       IN  /\ d_bufs' = r.bufs
           /\ d_last' = [n |-> d_last.n + 1, out |-> out, ts |-> t,
                         dpb |-> dpb, before |-> d_bufs[out].position,
                         position |-> r.position,
                         output |-> r.output, used_dpbs |-> r.used_dpbs,
                         pic_list |-> r.pic_list,
                         slots |-> SlotsOf(r.bufs, out, dpb),
                         prev |-> d_last.slots,
                         listed |-> /\ d_last.listed
                                    /\ \A e \in Timestamps :
                                           "VALID" \in dpb[e] =>
                                               e \in DOMAIN d_last.slots]
    /\ UNCHANGED notDpbVars

\* The DPB of a job has ARRAY_SIZE(decode->dpb) entries.
V4L2_H264_NUM_DPB_ENTRIES == 16

\* The picture buffers of a session that decodes with full DPBs: one for
\* each entry, one for the output picture and one to spare.
SlotBufs == 1..SlotPics

\* The numbers of pictures a job lists before its output picture.
WindowLens == {0, V4L2_H264_NUM_DPB_ENTRIES - 1, V4L2_H264_NUM_DPB_ENTRIES}

\* The buffer k places before buffer out, the buffers taken in a ring.
RingBefore(out, k) == ((out - 1 - k) % SlotPics) + 1

\* The DPB of a job for the picture buffer out: the k pictures decoded before
\* it, all valid and active, and with self the output picture itself (its
\* second field, or a further slice). The timestamp of a picture is the
\* index of its buffer.
WindowDpb(out, k, self) ==
    [t \in SlotBufs |->
        IF \/ \E d \in 1..k : t = RingBefore(out, d)
           \/ (self /\ t = out)
        THEN {"VALID", "ACTIVE"} ELSE {}]

\* Buffers as cedrus_context_buffer_init leaves them (kzalloc).
InitSlot ==
    /\ k_bufs = [b \in SlotBufs |-> [ts |-> 0, position |-> 0]]
    /\ k_last = [n |-> 0, out |-> SlotPics, position |-> 0, output |-> -1,
                 used_dpbs |-> {}, entries |-> 0, dev |-> 0]

\* A job that is not the next picture with a full DPB: a shorter DPB, or
\* the picture of the last job again.
Deviates(k, self) == self \/ k # V4L2_H264_NUM_DPB_ENTRIES

\* One H.264 decode job with a DPB of k or k + 1 entries: for the buffer
\* after the last one, or for the last one again, which the DPB then lists.
SlotJob(out, k, self) ==
    /\ k_last.n < MaxSlotJobs
    /\ out = (IF self THEN k_last.out ELSE (k_last.out % SlotPics) + 1)
    /\ self => k_last.n > 0
    /\ Deviates(k, self) => k_last.dev < MaxSlotDeviations
    /\ k + (IF self THEN 1 ELSE 0) <= V4L2_H264_NUM_DPB_ENTRIES
    /\ LET bufs == [k_bufs EXCEPT ![out].ts = out]
           dpb == WindowDpb(out, k, self)
           r == cedrus_write_frame_list(bufs, out, dpb)
       IN  /\ k_bufs' = r.bufs
           /\ k_last' = [n |-> k_last.n + 1, out |-> out,
                         position |-> r.position, output |-> r.output,
                         used_dpbs |-> r.used_dpbs,
                         entries |-> Cardinality({t \in SlotBufs :
                                                     dpb[t] # {}}),
                         dev |-> k_last.dev + (IF Deviates(k, self) THEN 1
                                               ELSE 0)]
    /\ UNCHANGED notSlotVars

----------------------------------------------------------------------------
(* H.265 decoding: job_configure of cedrus_dec_h265.c *)

\* The byte before the slice data, as the hardware returns it.
PaddingBytes == {0, 1, 80, 128}

\* An offset of the slice data whose count of bits does not fit 32 bits.
WrapOffsets == {2 ^ 29 + 2}

H265Inputs ==
    [num_entry_point_offsets : 0..MaxEntryPoints,
     entry_point_offsets_count : 0..MaxEntryPoints,
     alloc : BOOLEAN,
     data_byte_offset : (0..MaxOffset) \cup WrapOffsets,
     padding : PaddingBytes]

\* The product x * 8 of the unsigned int arithmetic, modulo 2^32.
U32Times8(x) == (x % (2 ^ 29)) * 8

\* Writes of the trigger register that skip count bits, 32 at most each.
RECURSIVE cedrus_dec_h265_bits_skip(_, _)
cedrus_dec_h265_bits_skip(ops, count) ==
    IF count <= 0 THEN ops
    ELSE LET skip_count == IF count < 32 THEN count ELSE 32
         IN  cedrus_dec_h265_bits_skip(
                 Append(ops, [op |-> "bits_skip", n |-> skip_count]),
                 count - skip_count)

cedrus_dec_h265_bits_read(ops, count) ==
    Append(ops, [op |-> "bits_read", n |-> count])

\* The index of the lowest bit set in the padding byte, 8 when none is.
RECURSIVE PaddingCount(_, _)
PaddingCount(padding, count) ==
    IF count = 8 \/ (padding \div (2 ^ count)) % 2 = 1 THEN count
    ELSE PaddingCount(padding, count + 1)

\* A faulty skip: the stop bit is not included.
H265SliceData_stop_bit_left(mv, ops, in) ==
    LET skipped == cedrus_dec_h265_bits_skip(ops,
                       U32Times8(in.data_byte_offset - 1))
        read == cedrus_dec_h265_bits_read(skipped, 8)
        count == PaddingCount(in.padding, 0)
    IN  IF in.padding = 0
        THEN [ret |-> "EINVAL", mv |-> mv, ops |-> read]
        ELSE [ret |-> Success, mv |-> mv,
              ops |-> Append(cedrus_dec_h265_bits_skip(read, 8 - count),
                             [op |-> "irq_enable", n |-> 0])]

\* cedrus_dec_h265_job_configure from the skip to the slice data on.
H265SliceData(mv, ops, in) ==
    LET skipped == cedrus_dec_h265_bits_skip(ops,
                       U32Times8(in.data_byte_offset - 1))
        read == cedrus_dec_h265_bits_read(skipped, 8)
        count == PaddingCount(in.padding, 0) + 1
    IN  IF in.padding = 0
        THEN [ret |-> "EINVAL", mv |-> mv, ops |-> read]
        ELSE [ret |-> Success, mv |-> mv,
              ops |-> Append(cedrus_dec_h265_bits_skip(read, 8 - count),
                             [op |-> "irq_enable", n |-> 0])]

\* A faulty start of job_configure: the buffer is allocated before the
\* count of entry points is compared.
H265Bitstream_alloc_first(mv, in) ==
    IF ~mv /\ ~in.alloc
    THEN [ret |-> "ENOMEM", mv |-> FALSE, ops |-> <<>>]
    ELSE IF /\ in.num_entry_point_offsets # 0
            /\ in.num_entry_point_offsets # in.entry_point_offsets_count
    THEN [ret |-> "ERANGE", mv |-> TRUE, ops |-> <<>>]
    ELSE [ret |-> Success, mv |-> TRUE,
          ops |-> <<[op |-> "bits_setup", n |-> 0],
                    [op |-> "init_swdec", n |-> 0]>>]

\* cedrus_dec_h265_job_configure up to the start of bitstream access.
H265Bitstream(mv, in) ==
    IF /\ in.num_entry_point_offsets # 0
       /\ in.num_entry_point_offsets # in.entry_point_offsets_count
    THEN [ret |-> "ERANGE", mv |-> mv, ops |-> <<>>]
    ELSE IF ~mv /\ ~in.alloc
    THEN [ret |-> "ENOMEM", mv |-> FALSE, ops |-> <<>>]
    ELSE [ret |-> Success, mv |-> TRUE,
          ops |-> <<[op |-> "bits_setup", n |-> 0],
                    [op |-> "init_swdec", n |-> 0]>>]

\* A faulty job_configure: a zero offset of the slice data is decoded as
\* the offset of one byte.
cedrus_dec_h265_job_configure_zero_as_one(mv, in) ==
    LET head == H265Bitstream(mv, in)
    IN  IF head.ret # Success THEN head
        ELSE IF in.data_byte_offset = 0
        THEN H265SliceData(head.mv, head.ops,
                           [in EXCEPT !.data_byte_offset = 1])
        ELSE H265SliceData(head.mv, head.ops, in)

cedrus_dec_h265_job_configure(mv, in) ==
    LET head == H265Bitstream(mv, in)
    IN  IF head.ret # Success THEN head
        ELSE IF in.data_byte_offset = 0
        THEN [ret |-> "EOPNOTSUPP", mv |-> head.mv, ops |-> head.ops]
        ELSE H265SliceData(head.mv, head.ops, in)

InitH265 ==
    /\ h_mv = FALSE
    /\ h_last = [n |-> 0,
                 in |-> [num_entry_point_offsets |-> 0,
                         entry_point_offsets_count |-> 0, alloc |-> TRUE,
                         data_byte_offset |-> 0, padding |-> 0],
                 ret |-> Success, ops |-> <<>>,
                 state |-> NULL, triggered |-> FALSE]

\* cedrus_context_job_run of an H.265 session from job_configure on: on an
\* error the job is finished in error state, else the decode is triggered.
H265Job(in) ==
    LET r == cedrus_dec_h265_job_configure(h_mv, in)
    IN  /\ h_mv' = r.mv
        /\ h_last' = [n |-> 1, in |-> in, ret |-> r.ret,
                      ops |-> r.ops,
                      state |-> IF r.ret # Success THEN "ERROR" ELSE NULL,
                      triggered |-> r.ret = Success]
        /\ UNCHANGED notH265Vars

----------------------------------------------------------------------------
(* The H.264 encoder's header emission, statement by statement *)

\* The values written to the I-frame and P-frame QP controls; the lowest is
\* below the default of the minimum-QP control.
QpValues == {5, 26, 28}

\* The controls whose s_ctrl callback lowers state->step or sets a QP.
HdrCtrlIds == {"profile", "level", "entropy_mode", "qp_i", "qp_p"}

HdrCtrlValues(id) ==
    IF id \in {"qp_i", "qp_p"} THEN QpValues ELSE CtrlValues(id)

\* The difference of two unsigned values of at most 51, taken modulo 2^32
\* and passed as the int argument of cedrus_enc_h264_coded_se.
IntOfDifference(a, b) == a - b

\* A faulty QP block: the initial QP follows the QP of every job.
cedrus_enc_h264_job_prepare_qp_every_job(ctx, state, frame_type) ==
    LET q  == IF frame_type \in {"IDR", "I"} THEN ctx.qp_i ELSE ctx.qp_p
        qp == IF q > ctx.qp_max THEN ctx.qp_max
              ELSE IF q < ctx.qp_min THEN ctx.qp_min
              ELSE q
    IN  [qp |-> qp, qp_init |-> qp]

\* cedrus_enc_h264_job_prepare, the QP block: the QP of the frame type,
\* clamped, and the initial QP set with each new PPS.
cedrus_enc_h264_job_prepare_qp(ctx, state, frame_type) ==
    LET q  == IF frame_type \in {"IDR", "I"} THEN ctx.qp_i ELSE ctx.qp_p
        qp == IF q > ctx.qp_max THEN ctx.qp_max
              ELSE IF q < ctx.qp_min THEN ctx.qp_min
              ELSE q
    IN  [qp |-> qp,
         qp_init |-> IF state.step < CEDRUS_ENC_H264_STEP_SLICE
                     THEN qp ELSE state.qp_init]

\* A faulty cedrus_enc_h264_coded_eptb: the disable bit is never set.
cedrus_enc_h264_coded_eptb_never_disabled(para0, enable) ==
    para0 \ {"EPTB_DIS"}

\* cedrus_enc_h264_coded_eptb: read-modify-write of the disable bit of
\* VE_ENC_AVC_PARA0_REG, the register being the set of its bits that are set.
cedrus_enc_h264_coded_eptb(para0, enable) ==
    IF enable THEN para0 \ {"EPTB_DIS"} ELSE para0 \cup {"EPTB_DIS"}

\* The value cedrus_enc_h264_job_configure writes to VE_ENC_AVC_PARA0_REG:
\* the slice type and the entropy coding of the slice.
Para0Value(j) ==
    {IF j.frame_type = "P" THEN "SLICE_TYPE_P" ELSE "SLICE_TYPE_I"}
    \cup (IF j.entropy_coding_mode_flag # 0
          THEN {"ENTROPY_CODING_CABAC"} ELSE {})

\* cedrus_enc_h264_job_prepare, the feature block: the entropy coding mode
\* flag of the job from the entropy mode of the context.
cedrus_enc_h264_job_prepare_entropy(ctx) ==
    IF ctx.entropy_mode = "cabac" THEN 1 ELSE 0

\* The session after cedrus_enc_h264_setup: a zeroed engine context, the
\* step at start, the controls applied. The register holds what the last
\* user of the engine left.
InitHdr ==
    /\ \E em \in CtrlValues("entropy_mode") :
         /\ hd_ctrl = [qp_i |-> 26, qp_p |-> 28, profile |-> "main",
                       level |-> 40, entropy_mode |-> em]
         /\ \E prepend \in {0, 1} :
              hd_ctx = [qp_i |-> 26, qp_p |-> 28, qp_min |-> 10,
                        qp_max |-> 40, profile |-> "main", level |-> 40,
                        entropy_mode |-> em,
                        prepend_sps_pps_idr |-> prepend]
    /\ hd_state = [step |-> CEDRUS_ENC_H264_STEP_START, qp_init |-> 0]
    /\ hd_job = [frame_type |-> "IDR", qp |-> 0,
                 entropy_coding_mode_flag |-> 0]
    /\ hd_pc = "idle"
    /\ hd_case = CEDRUS_ENC_H264_STEP_START
    /\ hd_para0 \in {{}, {"EPTB_DIS"}}
    /\ hd_out = <<>>
    /\ hd_hist = [jobs |-> 0, writes |-> 0, pic_init_qp |-> -1,
                  pps_entropy |-> -1, mid |-> FALSE, last |-> "none"]

\* The header emission at rest.
QuietHdr ==
    /\ hd_ctrl = [qp_i |-> 26, qp_p |-> 28, profile |-> "main",
                  level |-> 40, entropy_mode |-> "cavlc"]
    /\ hd_ctx = [qp_i |-> 26, qp_p |-> 28, qp_min |-> 10, qp_max |-> 40,
                 profile |-> "main", level |-> 40, entropy_mode |-> "cavlc",
                 prepend_sps_pps_idr |-> 0]
    /\ hd_state = [step |-> CEDRUS_ENC_H264_STEP_START, qp_init |-> 0]
    /\ hd_job = [frame_type |-> "IDR", qp |-> 0,
                 entropy_coding_mode_flag |-> 0]
    /\ hd_pc = "idle"
    /\ hd_case = CEDRUS_ENC_H264_STEP_START
    /\ hd_para0 = {}
    /\ hd_out = <<>>
    /\ hd_hist = [jobs |-> 0, writes |-> 0, pic_init_qp |-> -1,
                  pps_entropy |-> -1, mid |-> FALSE, last |-> "none"]

\* VIDIOC_S_CTRL of a new value while streaming: try_ctrl, then
\* cedrus_enc_h264_ctrl_prepare, where the context takes ctrl->cur.val, a
\* change of profile or level lowers the step to SPS and a change of entropy
\* mode to PPS, then the framework stores the value. The callback holds the
\* lock of the control handler, which of the job only job_prepare takes.
HdrCtrlWrite(id, val) ==
    /\ hd_hist.writes < MaxHdrWrites
    /\ val # hd_ctrl[id]
    /\ LET ok == cedrus_enc_h264_ctrl_validate(hd_ctrl, id, val) = Success
           r  == cedrus_enc_h264_ctrl_prepare(hd_ctx, hd_state, hd_ctrl, id)
       IN  /\ hd_ctx' = IF ok THEN r.ctx ELSE hd_ctx
           /\ hd_state' = IF ok THEN r.state ELSE hd_state
           /\ hd_ctrl' = IF ok THEN [r.ctrl EXCEPT ![id] = val] ELSE hd_ctrl
    /\ hd_hist' = [hd_hist EXCEPT
                     !.writes = @ + 1,
                     !.mid = @ \/ hd_pc \in {"prepared", "switch", "case"},
                     !.last = "ctrl"]
    /\ UNCHANGED <<hd_job, hd_pc, hd_case, hd_para0, hd_out>>
    /\ UNCHANGED notHdrVars

\* cedrus_enc_h264_job_prepare, under the lock of the control handler: the
\* frame type (IDR for the first frame, then what the GOP rule and the
\* key-frame request give), the step back to SPS for an IDR frame with the
\* prepend flag, the QP.
HdrJobPrepare ==
    /\ hd_pc = "idle"
    /\ hd_hist.jobs < MaxHdrJobs
    /\ \E frame_type \in IF hd_hist.jobs = 0 THEN {"IDR"}
                         ELSE {"IDR", "I", "P"} :
         LET st == IF frame_type = "IDR" /\ hd_ctx.prepend_sps_pps_idr # 0
                   THEN [hd_state EXCEPT !.step = CEDRUS_ENC_H264_STEP_SPS]
                   ELSE hd_state
             q  == cedrus_enc_h264_job_prepare_qp(hd_ctx, st, frame_type)
         IN  /\ hd_state' = [st EXCEPT !.qp_init = q.qp_init]
             /\ hd_job' = [frame_type |-> frame_type, qp |-> q.qp,
                           entropy_coding_mode_flag |->
                               cedrus_enc_h264_job_prepare_entropy(hd_ctx)]
    /\ hd_pc' = "prepared"
    /\ hd_out' = <<>>
    /\ hd_hist' = [hd_hist EXCEPT !.jobs = @ + 1, !.last = "prepare"]
    /\ UNCHANGED <<hd_ctrl, hd_ctx, hd_case, hd_para0>>
    /\ UNCHANGED notHdrVars

\* The configuration of the picture format fails and the job finishes in
\* error state, or cedrus_enc_h264_job_configure runs up to the loop of
\* cedrus_enc_h264_job_configure_headers: insertion of the
\* emulation-prevention byte is disabled.
HdrConfigureBegin ==
    /\ hd_pc = "prepared"
    /\ \E fail \in BOOLEAN :
         IF fail
         THEN /\ hd_pc' = "idle"
              /\ UNCHANGED hd_para0
         ELSE /\ hd_pc' = "switch"
              /\ hd_para0' = cedrus_enc_h264_coded_eptb(hd_para0, FALSE)
    /\ hd_hist' = [hd_hist EXCEPT !.last = "begin"]
    /\ UNCHANGED <<hd_ctrl, hd_ctx, hd_state, hd_job, hd_case, hd_out>>
    /\ UNCHANGED notHdrVars

\* The head of the loop: switch (state->step).
HdrSwitch ==
    /\ hd_pc = "switch"
    /\ hd_case' = hd_state.step
    /\ hd_pc' = "case"
    /\ hd_hist' = [hd_hist EXCEPT !.last = "switch"]
    /\ UNCHANGED <<hd_ctrl, hd_ctx, hd_state, hd_job, hd_para0, hd_out>>
    /\ UNCHANGED notHdrVars

\* The unit a case of the loop appends, with the state of the disable bit
\* while its bits are appended: the PPS carries state->qp_init, the slice
\* header the difference of the job's QP to it.
HdrUnit(nal) ==
    [nal |-> nal,
     eptb_dis |-> "EPTB_DIS" \in hd_para0,
     pic_init_qp_minus26 |->
        IF nal = "pps" THEN IntOfDifference(hd_state.qp_init, 26) ELSE 0,
     slice_qp_delta |->
        IF nal = "slice" THEN IntOfDifference(hd_job.qp, hd_state.qp_init)
        ELSE 0,
     entropy_coding_mode_flag |->
        IF nal = "pps" THEN hd_job.entropy_coding_mode_flag ELSE 0,
     pic_init_qp |->
        IF nal = "pps" THEN hd_state.qp_init ELSE hd_hist.pic_init_qp]

\* The body of the case taken: the unit is appended and the step assigned;
\* the slice header ends the loop.
HdrCase ==
    /\ hd_pc = "case"
    /\ CASE hd_case = CEDRUS_ENC_H264_STEP_START ->
              /\ hd_state' = [hd_state EXCEPT
                                !.step = CEDRUS_ENC_H264_STEP_SPS]
              /\ hd_pc' = "switch"
              /\ hd_hist' = [hd_hist EXCEPT !.last = "case"]
              /\ UNCHANGED hd_out
         [] hd_case = CEDRUS_ENC_H264_STEP_SPS ->
              /\ hd_out' = Append(hd_out, HdrUnit("sps"))
              /\ hd_state' = [hd_state EXCEPT
                                !.step = CEDRUS_ENC_H264_STEP_PPS]
              /\ hd_pc' = "switch"
              /\ hd_hist' = [hd_hist EXCEPT !.last = "case"]
         [] hd_case = CEDRUS_ENC_H264_STEP_PPS ->
              /\ hd_out' = Append(hd_out, HdrUnit("pps"))
              /\ hd_state' = [hd_state EXCEPT
                                !.step = CEDRUS_ENC_H264_STEP_SLICE]
              /\ hd_pc' = "switch"
              /\ hd_hist' = [hd_hist EXCEPT
                               !.last = "case",
                               !.pic_init_qp = hd_state.qp_init,
                               !.pps_entropy =
                                   hd_job.entropy_coding_mode_flag]
         [] hd_case = CEDRUS_ENC_H264_STEP_SLICE ->
              /\ hd_out' = Append(hd_out, HdrUnit("slice"))
              /\ hd_pc' = "end"
              /\ hd_hist' = [hd_hist EXCEPT !.last = "case"]
              /\ UNCHANGED hd_state
    /\ UNCHANGED <<hd_ctrl, hd_ctx, hd_job, hd_case, hd_para0>>
    /\ UNCHANGED notHdrVars

\* The end of cedrus_enc_h264_job_configure_headers: insertion of the
\* emulation-prevention byte is enabled.
HdrHeadersReturn ==
    /\ hd_pc = "end"
    /\ hd_para0' = cedrus_enc_h264_coded_eptb(hd_para0, TRUE)
    /\ hd_pc' = "params"
    /\ hd_hist' = [hd_hist EXCEPT !.last = "return"]
    /\ UNCHANGED <<hd_ctrl, hd_ctx, hd_state, hd_job, hd_case, hd_out>>
    /\ UNCHANGED notHdrVars

\* The rest of cedrus_enc_h264_job_configure, which writes the encode
\* parameters to VE_ENC_AVC_PARA0_REG, and cedrus_enc_h264_job_trigger.
HdrTrigger ==
    /\ hd_pc = "params"
    /\ hd_para0' = Para0Value(hd_job)
    /\ hd_pc' = "running"
    /\ hd_hist' = [hd_hist EXCEPT !.last = "trigger"]
    /\ UNCHANGED <<hd_ctrl, hd_ctx, hd_state, hd_job, hd_case, hd_out>>
    /\ UNCHANGED notHdrVars

\* The job finishes.
HdrComplete ==
    /\ hd_pc = "running"
    /\ hd_pc' = "idle"
    /\ hd_hist' = [hd_hist EXCEPT !.last = "complete"]
    /\ UNCHANGED <<hd_ctrl, hd_ctx, hd_state, hd_job, hd_case, hd_para0,
                   hd_out>>
    /\ UNCHANGED notHdrVars

----------------------------------------------------------------------------
(* The crop rectangle of the encoder's picture format *)

\* The picture sizes and the rectangles that user space asks for.
ReqSizes == {0, 20, 32}

CropOffsets == {-3, 1, 16, 34}

\* An unsigned int of 32 bits as two halves of 16 bits.
UINT_MAX == [hi |-> Half - 1, lo |-> Half - 1]

\* The conversion of an int of small magnitude to unsigned int.
U32Of(x) ==
    IF x >= 0 THEN [hi |-> x \div Half, lo |-> x % Half]
    ELSE [hi |-> Half - 1 - ((-x - 1) \div Half),
          lo |-> Half - 1 - ((-x - 1) % Half)]

CropSizes == {U32Of(0), U32Of(16), UINT_MAX}

\* a - b of two unsigned ints, modulo 2^32.
U32Sub(a, b) ==
    LET borrow == IF a.lo < b.lo THEN 1 ELSE 0
    IN  [hi |-> (a.hi - b.hi - borrow) % Half,
         lo |-> (a.lo - b.lo) % Half]

U32Less(a, b) == a.hi < b.hi \/ (a.hi = b.hi /\ a.lo < b.lo)

\* u / 2 of an unsigned int.
U32Halve(u) ==
    [hi |-> u.hi \div 2, lo |-> (u.hi % 2) * (Half \div 2) + u.lo \div 2]

\* round_up(x, 2) of an int: ((x - 1) | 1) + 1.
round_up2(x) == x + (x % 2)

\* clamp(val, lo, hi) of unsigned ints: min(max(val, lo), hi).
clamp(val, lo, hi) ==
    LET m == IF U32Less(val, lo) THEN lo ELSE val
    IN  IF U32Less(hi, m) THEN hi ELSE m

\* v4l2_apply_frmsize_constraints with cedrus_enc_h264_frmsize on one
\* dimension: clamped to 16..4096, then rounded up to a multiple of 16.
cedrus_enc_h264_frmsize(x) ==
    LET c == IF x < 16 THEN 16 ELSE IF x > 4096 THEN 4096 ELSE x
    IN  ((c + 15) \div 16) * 16

\* cedrus_context_selection_picture_reset: the whole picture.
cedrus_context_selection_picture_reset(fmt) ==
    [left |-> 0, top |-> 0,
     width |-> U32Of(fmt.width), height |-> U32Of(fmt.height)]

\* cedrus_proc_s_selection for the target CROP on the picture queue: left
\* and top are ints, width and height unsigned ints.
cedrus_proc_s_selection(fmt, r) ==
    LET left == round_up2(r.left)
        top == round_up2(r.top)
        width_max == U32Sub(U32Of(fmt.width), U32Of(left))
        height_max == U32Sub(U32Of(fmt.height), U32Of(top))
    IN  [left |-> left, top |-> top,
         width |-> clamp(r.width, U32Of(2), width_max),
         height |-> clamp(r.height, U32Of(2), height_max)]

\* cedrus_enc_h264_job_configure_sps, the frame cropping: the four offsets
\* are u32, and the SPS carries their halves when the rectangle is not of
\* the size of the picture.
cedrus_enc_h264_job_configure_sps_crop(fmt, sel) ==
    LET crop_left == U32Of(sel.left)
        crop_right == U32Sub(U32Sub(U32Of(fmt.width), sel.width),
                             U32Of(sel.left))
        crop_top == U32Of(sel.top)
        crop_bottom == U32Sub(U32Sub(U32Of(fmt.height), sel.height),
                              U32Of(sel.top))
    IN  IF sel.width # U32Of(fmt.width) \/ sel.height # U32Of(fmt.height)
        THEN [frame_cropping_flag |-> 1,
              left |-> U32Halve(crop_left), right |-> U32Halve(crop_right),
              top |-> U32Halve(crop_top), bottom |-> U32Halve(crop_bottom)]
        ELSE [frame_cropping_flag |-> 0,
              left |-> U32Of(0), right |-> U32Of(0),
              top |-> U32Of(0), bottom |-> U32Of(0)]

\* No SPS was emitted by the last call.
NoSps == [frame_cropping_flag |-> -1]

\* The encoder session after open: cedrus_enc_format_setup sets 1280x720,
\* which the constraints of the frame size make 1280x720, and resets the
\* selection.
InitSel ==
    LET fmt == [width |-> cedrus_enc_h264_frmsize(1280),
                height |-> cedrus_enc_h264_frmsize(720)]
    IN  /\ sel_fmt = fmt
        /\ sel_crop = cedrus_context_selection_picture_reset(fmt)
        /\ sel_last = [op |-> "open", sps |-> NoSps]

\* VIDIOC_S_FMT on the picture queue: the size is constrained and the format
\* propagated, which resets the selection.
SelSetFormat(w, h) ==
    LET fmt == [width |-> cedrus_enc_h264_frmsize(w),
                height |-> cedrus_enc_h264_frmsize(h)]
    IN  /\ sel_fmt' = fmt
        /\ sel_crop' = cedrus_context_selection_picture_reset(fmt)
        /\ sel_last' = [op |-> "s_fmt", sps |-> NoSps]
        /\ UNCHANGED notSelVars

\* VIDIOC_S_SELECTION with the target CROP on the picture queue.
SelSetCrop(r) ==
    /\ sel_crop' = cedrus_proc_s_selection(sel_fmt, r)
    /\ sel_last' = [op |-> "s_selection", sps |-> NoSps]
    /\ UNCHANGED sel_fmt
    /\ UNCHANGED notSelVars

\* A job emits the SPS.
SelSps ==
    /\ sel_last' =
         [op |-> "sps",
          sps |-> cedrus_enc_h264_job_configure_sps_crop(sel_fmt, sel_crop)]
    /\ UNCHANGED <<sel_fmt, sel_crop>>
    /\ UNCHANGED notSelVars

----------------------------------------------------------------------------
(* Specifications *)

\* A part of the driver at rest while another part is exercised.
QuietJob ==
    /\ engine = [c \in Contexts |-> IF c = "e1" THEN "h264enc" ELSE "mpeg2"]
    /\ open = [c \in Contexts |-> "open"]
    /\ curr = NULL
    /\ pc = "idle"
    /\ job = [c \in Contexts |-> ZeroJob]
    /\ cur_req = FALSE
    /\ ctx_active = [p \in Procs |-> NULL]
    /\ wdog = "idle"
    /\ irq_en = [e \in Engines |-> FALSE]
    /\ irq_stat = [e \in Engines |-> CEDRUS_IRQ_NONE]
    /\ hw_busy = NULL
    /\ njobs = 0
    /\ nspur = 0
    /\ finished = [j \in JobIds |-> <<>>]
    /\ trace = <<>>
    /\ last = "init"

QuietStream == InitStream /\ s_engine = "mpeg2"

QuietEngine == InitEngine /\ e_desc = NoDesc

QuietPrepare == InitPrepare /\ p_engine = "mpeg2"

\* The encoder session of the other specifications: a closed GOP of two
\* frames at stream start.
QuietEnc ==
    /\ InitEnc
    /\ enc_ctrl = [gop_closure |-> 1, gop_size |-> 2, gop_open_i_period |-> 2,
                   prepend_sps_pps_idr |-> 0, profile |-> "main",
                   level |-> 40, entropy_mode |-> "cavlc"]

Init ==
    InitJob /\ QuietStream /\ QuietEngine /\ QuietPrepare /\ InitFormat
    /\ QuietEnc /\ InitBits /\ InitDpb /\ InitH265 /\ InitWd /\ QuietHdr
    /\ InitSel /\ InitSlot

\* Steps of the job pipeline without the release of sessions.
RunNext ==
    \/ \E c \in Contexts : DeviceRun(c)
    \/ JobTrigger
    \/ HwComplete
    \/ Irq
    \/ WatchdogExpire
    \/ cedrus_watchdog

ReleaseNext ==
    \/ \E c \in Contexts : ReleaseBegin(c)
    \/ \E c \in Contexts : ReleaseEnd(c)

Next == RunNext \/ ReleaseNext

Spec == Init /\ [][Next]_vars

\* The job pipeline with the release of sessions that have a job queued.
ReleaseRaceNext == Next \/ \E c \in Contexts : DeviceRunQueued(c)

ReleaseSpec == Init /\ [][ReleaseRaceNext]_vars

\* The job pipeline of sessions that stay open, with interrupt delivery, the
\* watchdog timer and its work, the hardware and the running job_run all
\* making progress.
FairSpec ==
    /\ Init
    /\ [][RunNext]_vars
    /\ WF_vars(Irq)
    /\ WF_vars(WatchdogExpire)
    /\ WF_vars(cedrus_watchdog)
    /\ WF_vars(JobTrigger)
    /\ WF_vars(HwComplete)

StreamInit ==
    QuietJob /\ InitStream /\ QuietEngine /\ QuietPrepare /\ InitFormat
    /\ QuietEnc /\ InitBits /\ InitDpb /\ InitH265 /\ InitWd /\ QuietHdr
    /\ InitSel /\ InitSlot

StreamNext ==
    \/ \E q \in Queues : StartStreaming(q)
    \/ \E q \in Queues : StopStreaming(q)

StreamSpec == StreamInit /\ [][StreamNext]_vars

EngineInit ==
    QuietJob /\ QuietStream /\ InitEngine /\ QuietPrepare /\ InitFormat
    /\ QuietEnc /\ InitBits /\ InitDpb /\ InitH265 /\ InitWd /\ QuietHdr
    /\ InitSel /\ InitSlot

EngineNext == WrapperCall

EngineSpec == EngineInit /\ [][EngineNext]_vars

PrepareInit ==
    QuietJob /\ QuietStream /\ QuietEngine /\ InitPrepare /\ InitFormat
    /\ QuietEnc /\ InitBits /\ InitDpb /\ InitH265 /\ InitWd /\ QuietHdr
    /\ InitSel /\ InitSlot

PrepareNext == PrepareJob

PrepareSpec == PrepareInit /\ [][PrepareNext]_vars

FormatInit ==
    QuietJob /\ QuietStream /\ QuietEngine /\ QuietPrepare /\ InitFormat
    /\ QuietEnc /\ InitBits /\ InitDpb /\ InitH265 /\ InitWd /\ QuietHdr
    /\ InitSel /\ InitSlot

FormatNext ==
    \/ \E q \in Queues : SetFormat(q)
    \/ \E q \in Queues : \E n \in 0..MaxBufs : ReqBufs(q, n)
    \/ \E q \in Queues : StreamOn(q)
    \/ \E q \in Queues : StreamOff(q)
    \/ JobBegin
    \/ JobEnd

FormatSpec == FormatInit /\ [][FormatNext]_vars

EncInit ==
    QuietJob /\ QuietStream /\ QuietEngine /\ QuietPrepare /\ InitFormat
    /\ InitEnc /\ InitBits /\ InitDpb /\ InitH265 /\ InitWd /\ QuietHdr
    /\ InitSel /\ InitSlot

EncNext ==
    \/ \E id \in CtrlIds : \E val \in CtrlValues(id) : EncCtrlWrite(id, val)
    \/ EncForceKeyFrame
    \/ EncJobPrepare
    \/ EncJobConfigure
    \/ EncJobComplete

EncSpec == EncInit /\ [][EncNext]_vars

BitsInit ==
    QuietJob /\ QuietStream /\ QuietEngine /\ QuietPrepare /\ InitFormat
    /\ QuietEnc /\ InitBits /\ InitDpb /\ InitH265 /\ InitWd /\ QuietHdr
    /\ InitSel /\ InitSlot

BitsNext ==
    \/ \E v \in 0..MaxUe : CodedUe(v)
    \/ \E v \in (-MaxSe)..MaxSe : CodedSe(v)
    \/ \E v \in {0, 1} : CodedBit(v)
    \/ CodedAlign

BitsSpec == BitsInit /\ [][BitsNext]_vars

DpbInit ==
    QuietJob /\ QuietStream /\ QuietEngine /\ QuietPrepare /\ InitFormat
    /\ QuietEnc /\ InitBits /\ InitDpb /\ InitH265 /\ InitWd /\ QuietHdr
    /\ InitSel /\ InitSlot

DpbNext ==
    \E out \in PicBufs, t \in Timestamps, dpb \in Dpbs :
        H264DecJob(out, t, dpb)

DpbSpec == DpbInit /\ [][DpbNext]_vars

ProfileInit ==
    QuietJob /\ QuietStream /\ QuietEngine /\ QuietPrepare /\ InitFormat
    /\ InitProfile /\ InitBits /\ InitDpb /\ InitH265 /\ InitWd /\ QuietHdr
    /\ InitSel /\ InitSlot

ProfileNext ==
    \/ \E id \in {"profile", "entropy_mode"} : \E val \in CtrlValues(id) :
           ProfileWriteIdle(id, val) \/ ProfileWrite(id, val)
    \/ ProfileStreamOn
    \/ ProfileStreamOff
    \/ EncJobPrepare
    \/ EncJobConfigure
    \/ EncJobComplete

ProfileSpec == ProfileInit /\ [][ProfileNext]_vars

H265Init ==
    QuietJob /\ QuietStream /\ QuietEngine /\ QuietPrepare /\ InitFormat
    /\ QuietEnc /\ InitBits /\ InitDpb /\ InitH265 /\ InitWd /\ QuietHdr
    /\ InitSel /\ InitSlot

H265Next == \E in \in H265Inputs : H265Job(in)

H265Spec == H265Init /\ [][H265Next]_vars

HdrInit ==
    QuietJob /\ QuietStream /\ QuietEngine /\ QuietPrepare /\ InitFormat
    /\ QuietEnc /\ InitBits /\ InitDpb /\ InitH265 /\ InitWd /\ InitHdr
    /\ InitSel /\ InitSlot

HdrNext ==
    \/ \E id \in HdrCtrlIds : \E val \in HdrCtrlValues(id) :
           HdrCtrlWrite(id, val)
    \/ HdrJobPrepare
    \/ HdrConfigureBegin
    \/ HdrSwitch
    \/ HdrCase
    \/ HdrHeadersReturn
    \/ HdrTrigger
    \/ HdrComplete

HdrSpec == HdrInit /\ [][HdrNext]_vars

SelInit ==
    QuietJob /\ QuietStream /\ QuietEngine /\ QuietPrepare /\ InitFormat
    /\ QuietEnc /\ InitBits /\ InitDpb /\ InitH265 /\ InitWd /\ QuietHdr
    /\ InitSel /\ InitSlot

SelNext ==
    \/ \E w \in ReqSizes, h \in ReqSizes : SelSetFormat(w, h)
    \/ \E l \in CropOffsets, t \in CropOffsets :
         \E w \in CropSizes, h \in CropSizes :
             SelSetCrop([left |-> l, top |-> t, width |-> w, height |-> h])
    \/ SelSps

SelSpec == SelInit /\ [][SelNext]_vars

SlotInit ==
    QuietJob /\ QuietStream /\ QuietEngine /\ QuietPrepare /\ InitFormat
    /\ QuietEnc /\ InitBits /\ InitDpb /\ InitH265 /\ InitWd /\ QuietHdr
    /\ InitSel /\ InitSlot

SlotNext ==
    \E out \in SlotBufs, k \in WindowLens, self \in BOOLEAN :
        SlotJob(out, k, self)

SlotSpec == SlotInit /\ [][SlotNext]_vars

----------------------------------------------------------------------------
(* Properties of the job pipeline *)

\* The job dispatched last reached schedule_delayed_work.
Armed == njobs >= 1 /\ Has(trace, "watchdog_arm")

\* Steps of the interrupt handler taken with the watchdog cancelled and a
\* session current, i.e. for an outstanding job.
IrqForJob == last' \in {"irq_none", "irq_finish"}

\* C1: for an armed job, once the watchdog work is neither pending nor running
\* (an interrupt cancelled it, or it ran), exactly one of the two paths has
\* completed the job: one job_finish report, the job structure cleared, and
\* never more than one report for any job.
C1_ExactlyOnePathCompletes ==
    /\ \A j \in JobIds : Len(finished[j]) <= 1
    /\ (Armed /\ wdog = "idle" /\ pc = "idle") =>
          /\ Len(finished[njobs]) = 1
          /\ \A c \in Contexts : job[c] = ZeroJob

\* C2: every job handed to cedrus_context_job_run is eventually reported to
\* the m2m framework, and never more than once.
C2_EveryJobReported ==
    \A j \in JobIds :
        /\ [](Len(finished[j]) <= 1)
        /\ [](njobs >= j => <>(Len(finished[j]) = 1))

\* C3: an interrupt for an outstanding job completes it in error state when
\* irq_status is Error or None, and in Done state when it is Success.
C3_StatusDecidesState ==
    [][IrqForJob =>
         finished'[njobs] =
             Append(finished[njobs],
                    IF irq_stat[engine[curr]] = CEDRUS_IRQ_SUCCESS
                    THEN "DONE" ELSE "ERROR")]_vars

Completes == \E j \in JobIds : Len(finished'[j]) > Len(finished[j])

ActiveEngines == {engine[ctx_active[p]] : p \in {q \in Procs : ctx_active[q] # NULL}}

\* C5: an interrupt taken while the watchdog work is not pending is spurious:
\* it disables and clears the interrupt of the engines of the active sessions
\* and of no other engine, completes no job, and changes nothing else.
C5_SpuriousChangesNothing ==
    [][(last' \in {"irq_spurious", "irq_none", "irq_finish"}
        /\ wdog \notin {"pending", "rearmed"}) =>
          /\ last' = "irq_spurious"
          /\ UNCHANGED <<engine, open, curr, pc, job, cur_req, ctx_active,
                         wdog, hw_busy, njobs, finished, trace>>
          /\ \A e \in Engines :
                IF e \in ActiveEngines
                THEN ~irq_en'[e] /\ irq_stat'[e] = CEDRUS_IRQ_NONE
                ELSE irq_en'[e] = irq_en[e] /\ irq_stat'[e] = irq_stat[e]]_vars

\* A spurious interrupt after the watchdog completed the job, with a session
\* still flagged active.
C5_Witness ==
    /\ last = "irq_spurious"
    /\ wdog = "idle"
    /\ curr = NULL
    /\ Armed
    /\ finished[njobs] = <<"ERROR">>
    /\ ctx_active["dec"] # NULL

\* C6: when the source buffer carries a request, job_run applies it before
\* job_prepare and completes it exactly once, on the success path and on
\* every failure path; without a request it does neither.
C6_RequestOnce ==
    njobs >= 1 =>
        IF cur_req
        THEN /\ Count(trace, "req_setup") = 1
             /\ Count(trace, "req_complete") = 1
             /\ Has(trace, "job_prepare") =>
                    First(trace, "req_setup") < First(trace, "job_prepare")
             /\ First(trace, "req_setup") < First(trace, "req_complete")
        ELSE ~Has(trace, "req_setup") /\ ~Has(trace, "req_complete")

\* A job with a request whose configuration failed and was completed in error.
C6_Witness ==
    /\ cur_req
    /\ last = "run_error"
    /\ Has(trace, "job_prepare")
    /\ Count(trace, "req_complete") = 1
    /\ finished[njobs] = <<"ERROR">>

----------------------------------------------------------------------------
(* Properties of job_prepare, the engine wrappers and streaming *)

\* C7: a job whose request lacks a control structure that job_prepare looks up
\* fails in job_prepare with an invalid-control error and completes in error
\* state, job_configure not having run.
C7_AbsentControlFailsJob ==
    (p_n >= 1 /\ \E id \in JobCtrls(p_engine) : id \notin p_req) =>
        /\ p_ret = "EINVAL"
        /\ p_state = "ERROR"
        /\ ~Has(p_trace, "job_configure")

\* Wrappers that return a status.
StatusOps ==
    {"ctrl_validate", "ctrl_prepare", "format_prepare", "format_configure",
     "setup", "buffer_setup", "job_prepare", "job_configure"}

\* C8: a wrapper called with no engine descriptor, or with a descriptor that
\* has no operation table, invokes no codec callback and does not report
\* success when it returns a status.
C8_NoEngineFailsFast ==
    (e_op # "none" /\ NoEngine(e_desc)) =>
        /\ ~e_called
        /\ e_op \in StatusOps => e_ret = "ENODEV"
        /\ e_op = "irq_status" => e_ret # CEDRUS_IRQ_SUCCESS

\* job_configure called on a session without engine descriptor.
C8_Witness ==
    /\ e_op = "job_configure"
    /\ ~e_desc.present
    /\ e_cb = Success
    /\ e_ret = "ENODEV"
    /\ ~e_called

\* C9: a start of the coded queue that fails, at whichever step, frees every
\* allocation the call made, leaves engine_ctx and engine_job NULL and gives
\* back the power reference it took; a failed power acquisition takes and
\* gives back none.
C9_FailedStartUnwinds ==
    [][(s_hist' # s_hist /\ FailedCodedStart(s_hist'[Len(s_hist')])) =>
         /\ engine_ctx' = NullPtr
         /\ engine_job' = NullPtr
         /\ ~engine_dma'
         /\ heap'.live = heap.live
         /\ ~heap'.double_free
         /\ \A k \in {"ctx", "job"} :
               heap'.allocs[k] - heap.allocs[k] = heap'.frees[k] - heap.frees[k]
         /\ pm'.usage = pm.usage
         /\ IF s_hist'[Len(s_hist')].fail = "pm"
            THEN pm'.gets = pm.gets /\ pm'.puts = pm.puts
            ELSE pm'.gets = pm.gets + 1 /\ pm'.puts = pm.puts + 1]_vars

\* A start that failed in the setup callback, after both allocations.
C9_Witness ==
    /\ s_hist # <<>>
    /\ FailedCodedStart(LastCall)
    /\ LastCall.fail = "setup"
    /\ heap.allocs = [ctx |-> 1, job |-> 1]
    /\ heap.frees = [ctx |-> 1, job |-> 1]
    /\ engine_ctx = NullPtr
    /\ engine_job = NullPtr
    /\ pm = [usage |-> 0, gets |-> 1, puts |-> 1]

\* C10: after a stop of the coded queue that directly follows a failed start
\* of it, each scratch area was freed as often as it was allocated, nothing
\* was freed twice or is still allocated, and no callback used a scratch area
\* that holds no allocation.
C10_StopAfterFailedStart ==
    (/\ Len(s_hist) >= 2
     /\ LastCall.op = "stop" /\ LastCall.queue = "coded"
     /\ FailedCodedStart(s_hist[Len(s_hist) - 1])) =>
        /\ heap.allocs = heap.frees
        /\ ~heap.double_free
        /\ heap.live = {}
        /\ ~fault

----------------------------------------------------------------------------
(* Properties of the engine selection *)

\* C11: the engine of a session changes only while the session has no job in
\* flight and no buffer allocated on either queue; in particular no picture
\* buffer then holds an engine buffer set up by the previous engine.
C11_SwitchOnlyWhenIdle ==
    [][f_engine' # f_engine =>
         /\ ~f_job
         /\ \A q \in Queues : f_bufs[q] = 0
         /\ \A i \in BufIds : f_ebuf[i] = NULL]_vars

----------------------------------------------------------------------------
(* Properties of the H.264 encoder *)

\* The job at hand was prepared under the GOP controls the stream started
\* with, and no key frame was requested since the start.
SteadyJob == enc_pc # "idle" /\ enc_hist.steady /\ ~enc_hist.forced

\* C12: in a closed GOP of size g, with no key frame requested, job n since
\* stream start is an IDR frame exactly when n mod g = 0, a P frame otherwise.
C12_ClosedGopIdrEveryG ==
    (SteadyJob /\ enc_ctx.gop_closure # 0) =>
        enc_job.frame_type =
            IF JobCountMod(enc_hist.n, enc_ctx.gop_size) = 0
            THEN "IDR" ELSE "P"

\* The third job of a closed GOP of two frames is the second IDR frame.
C12_Witness ==
    /\ SteadyJob
    /\ enc_ctx.gop_closure # 0
    /\ enc_ctx.gop_size = 2
    /\ enc_hist.n = [wraps |-> 0, hi |-> 0, lo |-> 2]
    /\ enc_job.frame_type = "IDR"

\* The frame type C13 gives job n of an open GOP with I period p.
OpenGopRule(n, p) ==
    IF n = [wraps |-> 0, hi |-> 0, lo |-> 0] THEN "IDR"
    ELSE IF JobCountMod(n, p) = 0 THEN "I"
    ELSE "P"

\* C13 as stated: in an open GOP with I period p > 0, with no key frame
\* requested, job n since stream start is an IDR frame when n = 0, an I frame
\* when n > 0 and n mod p = 0, a P frame otherwise, for every n.
C13_OpenGopRuleAnyJob ==
    (SteadyJob /\ enc_ctx.gop_closure = 0 /\ enc_ctx.gop_open_i_period > 0) =>
        enc_job.frame_type =
            OpenGopRule(enc_hist.n, enc_ctx.gop_open_i_period)

\* C13, amended: the rule holds for the jobs n < 2^32, the range of the GOP
\* index.
C13_OpenGopRuleBelowWrap ==
    (/\ SteadyJob
     /\ enc_ctx.gop_closure = 0
     /\ enc_ctx.gop_open_i_period > 0
     /\ enc_hist.n.wraps = 0) =>
        enc_job.frame_type =
            OpenGopRule(enc_hist.n, enc_ctx.gop_open_i_period)

\* Job 4 of an open GOP with I period 4 is an I frame.
C13_Witness ==
    /\ SteadyJob
    /\ enc_ctx.gop_closure = 0
    /\ enc_ctx.gop_open_i_period = 4
    /\ enc_hist.n = [wraps |-> 0, hi |-> 0, lo |-> 4]
    /\ enc_job.frame_type = "I"

\* C14: a key frame request pending at job_prepare makes the job an IDR
\* frame whatever the GOP mode and index, and is consumed; a job prepared
\* with no request pending has the frame type of the GOP rule, and the GOP
\* index advances all the same.
C14_ForcedKeyFrameOnce ==
    [][(enc_pc = "idle" /\ enc_pc' = "prepared") =>
          /\ enc_job'.frame_type =
                IF enc_ctx.force_key_frame THEN "IDR"
                ELSE GopFrameType(enc_ctx, enc_state.gop_index)
          /\ ~enc_ctx'.force_key_frame
          /\ enc_state'.gop_index = GopAdvance(enc_ctx, enc_state.gop_index)
      ]_vars

\* A requested key frame in the middle of a closed GOP of three frames.
C14_Witness ==
    /\ enc_pc = "prepared"
    /\ enc_hist.steady
    /\ enc_hist.forced
    /\ ~enc_ctx.force_key_frame
    /\ enc_ctx.gop_closure # 0
    /\ enc_ctx.gop_size = 3
    /\ enc_hist.n = [wraps |-> 0, hi |-> 0, lo |-> 1]
    /\ enc_job.frame_type = "IDR"

\* C15: frame_num and pic_order_cnt_lsb of a job are below 256; both are 0 on
\* an IDR job, and any other job has the frame_num of the job before plus 1
\* and its pic_order_cnt_lsb plus 2, modulo 256.
C15_CountersWrapAndReset ==
    [][(enc_pc = "idle" /\ enc_pc' = "prepared") =>
          LET j == enc_job'
              prev == enc_hist.prev
          IN  /\ j.frame_num \in 0..(BIT(8) - 1)
              /\ j.pic_order_cnt_lsb \in 0..(BIT(8) - 1)
              /\ IF j.frame_type = "IDR"
                 THEN j.frame_num = 0 /\ j.pic_order_cnt_lsb = 0
                 ELSE /\ prev.frame_type # "none"
                      /\ j.frame_num = (prev.frame_num + 1) % BIT(8)
                      /\ j.pic_order_cnt_lsb =
                            (prev.pic_order_cnt_lsb + 2) % BIT(8)
      ]_vars

\* Both counters wrap to 0 on a job that is not an IDR frame.
C15_Witness ==
    /\ enc_pc = "prepared"
    /\ enc_job.frame_type # "IDR"
    /\ enc_job.frame_num = 0
    /\ enc_job.pic_order_cnt_lsb = 0
    /\ enc_hist.prev.frame_num = BIT(8) - 1
    /\ enc_hist.prev.pic_order_cnt_lsb = BIT(8) - 2

CodedBuffer ==
    CHOOSE b \in {"src", "dst"} : cedrus_proc_format_type("enc", b) = "coded"

\* C20: when an encoder job finished in state done, the coded buffer has the
\* payload size of the bit length divided by 8 and the keyframe flag for an
\* IDR or I frame, the P-frame flag for a P frame; in any other state it has
\* payload size 0 and no frame type flag.
C20_FinishSetsCodedPayload ==
    (enc_pc = "idle" /\ enc_hist.done # "none") =>
        LET b == enc_bufs[CodedBuffer]
        IN  IF enc_hist.done = "DONE"
            THEN /\ b.payload = enc_hist.length \div 8
                 /\ b.flags = IF enc_job.frame_type \in {"IDR", "I"}
                              THEN {"KEYFRAME"} ELSE {"PFRAME"}
            ELSE /\ b.payload = 0
                 /\ b.flags = {}

----------------------------------------------------------------------------
(* Properties of the bit writer *)

\* The bits the last call appended.
Appended == SubSeq(b_stream, b_last.from + 1, Len(b_stream))

\* The number a sequence of bits spells, most significant bit first.
RECURSIVE BitsValue(_)
BitsValue(bits) ==
    IF bits = <<>> THEN 0
    ELSE 2 * BitsValue(SubSeq(bits, 1, Len(bits) - 1)) + bits[Len(bits)]

\* floor(log2(n)) for n > 0.
Log2Floor(n) == CHOOSE k \in 0..MaxBits : 2 ^ k <= n /\ n < 2 ^ (k + 1)

\* The Exp-Golomb decoder of H.264: z zero bits, then z + 1 bits that spell
\* the code number plus one.
ExpGolombDecode(bits) ==
    LET z == CHOOSE n \in 0..Len(bits) :
                 /\ \A i \in 1..n : bits[i] = 0
                 /\ n = Len(bits) \/ bits[n + 1] = 1
    IN  [ok |-> Len(bits) = 2 * z + 1,
         k  |-> BitsValue(SubSeq(bits, z + 1, Len(bits))) - 1]

\* The inverse of the signed mapping in H.264: odd k to (k + 1) / 2, even k
\* to -k / 2.
SeInverse(k) == IF k % 2 = 1 THEN (k + 1) \div 2 ELSE -(k \div 2)

\* C17: coded_ue(v) appends the value v + 1 in exactly
\* 2 * floor(log2(v + 1)) + 1 bits: 1 bit for v = 0, 3 bits for v = 1 and 2.
C17_UeBitCount ==
    b_last.op = "ue" =>
        LET v == b_last.arg
        IN  /\ b_last.value = v + 1
            /\ b_last.count = 2 * Log2Floor(v + 1) + 1
            /\ Len(Appended) = b_last.count
            /\ BitsValue(Appended) = v + 1
            /\ v = 0 => b_last.count = 1
            /\ v \in {1, 2} => b_last.count = 3

\* ue(2) appended as 011 to a stream that already holds bits.
C17_Witness ==
    /\ b_last.op = "ue"
    /\ b_last.arg = 2
    /\ b_last.from > 0
    /\ Appended = <<0, 1, 1>>

\* C18: coded_se hands 2v - 1 to ue for v > 0 and -2v for v <= 0; the
\* mapping is injective, and decoding the appended bits and applying the
\* inverse mapping returns v.
C18_SeRoundTrip ==
    /\ \A v1, v2 \in (-MaxSe)..MaxSe :
          cedrus_enc_h264_coded_se(<<>>, v1).value_ue =
              cedrus_enc_h264_coded_se(<<>>, v2).value_ue => v1 = v2
    /\ b_last.op = "se" =>
          LET v == b_last.arg
              d == ExpGolombDecode(Appended)
          IN  /\ v > 0 => b_last.value = 2 * v - 1
              /\ v <= 0 => b_last.value = (-2) * v
              /\ d.ok
              /\ d.k = b_last.value
              /\ SeInverse(d.k) = v

\* se(-2) appended as 00101, the code of 4.
C18_Witness ==
    /\ b_last.op = "se"
    /\ b_last.arg = -2
    /\ b_last.value = 4
    /\ Appended = <<0, 0, 1, 0, 1>>

\* C19: coded_align on a stream of N bits appends (8 - N mod 8) mod 8 zero
\* bits and leaves the bits before them alone: the stream then holds a
\* multiple of 8 bits, fewer than 8 bits were appended, and none when N was
\* a multiple of 8.
C19_AlignPadsToByte ==
    [][(b_last'.op = "align" /\ b_last' # b_last) =>
          LET N == Len(b_stream)
              p == Len(b_stream') - N
          IN  /\ SubSeq(b_stream', 1, N) = b_stream
              /\ p = (8 - (N % 8)) % 8
              /\ p \in 0..7
              /\ Len(b_stream') % 8 = 0
              /\ \A i \in (N + 1)..Len(b_stream') : b_stream'[i] = 0
              /\ N % 8 = 0 => b_stream' = b_stream
      ]_vars

\* Five zero bits after three bits, one of them set.
C19_Witness ==
    /\ b_last.op = "align"
    /\ b_last.from = 3
    /\ b_last.count = 5
    /\ Len(b_stream) = 8
    /\ \E i \in 1..3 : b_stream[i] = 1

----------------------------------------------------------------------------
(* H.264 decoding: the slots of the frame list *)

\* No two pictures that the last job named have one slot.
SlotsDistinct ==
    \A t, o \in DOMAIN d_last.slots :
        t # o => d_last.slots[t] # d_last.slots[o]

\* The record of the frame list at the slot of a picture describes that
\* picture: the output picture, and every active DPB entry that a buffer
\* holds.
RecordsOwn ==
    /\ d_last.position \in Slots
    /\ d_last.pic_list[d_last.position] = d_last.ts
    /\ \A t \in DOMAIN d_last.slots :
           (t # d_last.ts /\ "ACTIVE" \in d_last.dpb[t]) =>
               d_last.pic_list[d_last.slots[t]] = t

ValidEntries ==
    {t \in DOMAIN d_last.slots : "VALID" \in d_last.dpb[t]}

\* C22: a picture that the job before named and that this job lists as a
\* valid DPB entry has the slot it had; the output picture takes the slot of
\* the valid DPB entry with its timestamp when there is one, and otherwise
\* the lowest slot that no valid DPB entry of this job has.
C22_SlotKeptAndFirstFit ==
    d_last.n > 0 =>
        /\ \A t \in ValidEntries :
               t \in DOMAIN d_last.prev => d_last.slots[t] = d_last.prev[t]
        /\ d_last.ts \in ValidEntries => d_last.position = d_last.before
        /\ d_last.ts \notin ValidEntries =>
               LET taken == {d_last.slots[t] : t \in ValidEntries}
               IN  /\ d_last.position \notin taken
                   /\ \A i \in Slots : i < d_last.position => i \in taken

\* The output picture took the slot of a picture that is no longer listed,
\* below the slot of a picture that still is.
C22_Witness ==
    /\ d_last.n > 0
    /\ d_last.ts \notin ValidEntries
    /\ \E t \in DOMAIN d_last.prev :
           /\ t \notin DOMAIN d_last.slots
           /\ d_last.prev[t] = d_last.position
    /\ \E t \in ValidEntries :
           /\ t \in DOMAIN d_last.prev
           /\ d_last.slots[t] > d_last.position

----------------------------------------------------------------------------
(* H.265 decoding: a slice without data_byte_offset *)

BitOps == {"bits_skip", "bits_read"}

NoBitOps == \A i \in DOMAIN h_last.ops : h_last.ops[i].op \notin BitOps

\* C23 as stated: a job whose slice has data_byte_offset 0 fails with the
\* unsupported error, without a bit skip or bit read, and is completed in
\* error state without a trigger.
C23_ZeroOffsetUnsupported ==
    (h_last.n > 0 /\ h_last.in.data_byte_offset = 0) =>
        /\ h_last.ret = "EOPNOTSUPP"
        /\ NoBitOps
        /\ h_last.state = "ERROR"
        /\ ~h_last.triggered

\* C23: a job whose slice has data_byte_offset 0 fails without a bit skip or
\* bit read and is completed in error state without a trigger; the error is
\* the unsupported one unless the entry point counts differ or the MV column
\* buffer cannot be allocated, which fail the job first.
C23_ZeroOffsetFails ==
    (h_last.n > 0 /\ h_last.in.data_byte_offset = 0) =>
        /\ h_last.ret \in {"EOPNOTSUPP", "ERANGE", "ENOMEM"}
        /\ h_last.ret = "ERANGE" <=>
               /\ h_last.in.num_entry_point_offsets # 0
               /\ h_last.in.num_entry_point_offsets #
                      h_last.in.entry_point_offsets_count
        /\ h_last.ret = "ENOMEM" => (~h_mv /\ ~h_last.in.alloc)
        /\ NoBitOps
        /\ h_last.state = "ERROR"
        /\ ~h_last.triggered

\* A job with data_byte_offset 0 failed as unsupported after bitstream
\* access was initialised.
C23_Witness ==
    /\ h_last.n > 0
    /\ h_last.in.data_byte_offset = 0
    /\ h_last.ret = "EOPNOTSUPP"
    /\ Len(h_last.ops) > 0

----------------------------------------------------------------------------
(* The watchdog *)

\* The first place of an event in a sequence of events, 0 when absent.
Place(seq, x) ==
    IF Has(seq, x) THEN CHOOSE i \in DOMAIN seq :
                            seq[i] = x /\ \A j \in 1..(i - 1) : seq[j] # x
    ELSE 0

\* The step of cedrus_watchdog that finds a job outstanding.
WatchdogFinishes == curr # NULL /\ last' = "wdog_finish"

\* C24: when the watchdog expires with a job outstanding, the hardware is
\* reset before the job is completed, that job and no other is completed,
\* once and in error state, and the device is left as a dispatch needs it: no
\* job current, the hardware idle, no interrupt raised, no watchdog pending.
C24_WatchdogResetsThenFails ==
    [][WatchdogFinishes =>
          /\ finished[njobs] = <<>>
          /\ finished' = [finished EXCEPT ![njobs] = <<"ERROR">>]
          /\ Place(trace', "reset") > 0
          /\ Place(trace', "reset") < Place(trace', "m2m_done")
          /\ curr' = NULL /\ pc' = "idle"
          /\ hw_busy' = NULL
          /\ \A e \in Engines : ~irq_en'[e] /\ irq_stat'[e] = CEDRUS_IRQ_NONE
          /\ wdog' = "idle"]_vars

\* The watchdog completed the first job; the job dispatched after it was
\* triggered and completed in done state by the interrupt handler.
C24_Witness ==
    /\ wd_done = {1}
    /\ finished[1] = <<"ERROR">>
    /\ finished[2] = <<"DONE">>
    /\ last = "irq_finish"

----------------------------------------------------------------------------
(* The H.264 encoder: entropy mode against profile *)

\* job_prepare of a job: it samples the profile and the entropy mode of the
\* codec context.
JobPrepared == enc_pc = "idle" /\ enc_pc' = "prepared"

\* C25: at every job the entropy mode in effect is CABAC only if the profile
\* in effect permits CABAC, for any order of control writes before or during
\* streaming.
C25_CabacOnlyWithProfile ==
    [][JobPrepared =>
          (enc_ctx'.entropy_mode = "cabac" =>
               cedrus_enc_h264_profile_cabac_check(enc_ctx'.profile))]_vars

----------------------------------------------------------------------------
(* cedrus_context_job_run: the order of the configuration and its failure *)

ConfigureCalls ==
    <<"job_prepare", "format_configure", "picture_configure",
      "job_configure">>

IsConfigureCall(ev) == \E i \in DOMAIN ConfigureCalls : ConfigureCalls[i] = ev

\* The step of cedrus_context_job_run for a new job.
Dispatches == njobs' = njobs + 1

\* The job of this dispatch is completed in error state, and the dispatch
\* neither records the active session, nor arms the watchdog, nor leaves a
\* trigger to come.
DispatchFailed ==
    /\ last' = "run_error"
    /\ finished'[njobs'] = <<"ERROR">>
    /\ curr' = NULL /\ pc' = "idle"
    /\ UNCHANGED <<ctx_active, wdog, hw_busy, irq_en>>
    /\ ~Has(trace', "active_update")
    /\ ~Has(trace', "watchdog_arm")
    /\ ~Has(trace', "job_trigger")

\* C26: job_prepare, format_configure and the configuration of the picture
\* format are called in this order and job_configure only after all three
\* succeeded; a failure of any of them or of job_configure ends the calls
\* there and completes the job in error state, with no active session
\* recorded, no watchdog armed and no trigger.
C26_ConfigureInOrderOrFail ==
    [][Dispatches =>
          LET calls == SelectSeq(trace', IsConfigureCall)
          IN  /\ run_fail' = "none" =>
                     /\ calls = ConfigureCalls
                     /\ last' = "run"
                     /\ finished'[njobs'] = <<>>
              /\ run_fail' = "format" =>
                     calls = SubSeq(ConfigureCalls, 1, 2) /\ DispatchFailed
              /\ run_fail' = "picture" =>
                     calls = SubSeq(ConfigureCalls, 1, 3) /\ DispatchFailed
              /\ run_fail' = "configure" =>
                     calls = ConfigureCalls /\ DispatchFailed]_vars

\* A dispatch failed in the configuration of the picture format, after a
\* job of the same device had been triggered and completed.
C26_Witness ==
    /\ last = "run_error"
    /\ run_fail = "picture"
    /\ njobs = 2
    /\ finished[1] # <<>>
    /\ finished[2] = <<"ERROR">>

----------------------------------------------------------------------------
(* The watchdog and the active session of a triggered job *)

\* A job was triggered and is not completed yet.
Triggered == curr # NULL /\ pc = "idle"

\* The order of a dispatch: the active session is recorded and the watchdog
\* armed before job_trigger.
ArmedBeforeTrigger ==
    Has(trace, "job_trigger") =>
        /\ Has(trace, "active_update") /\ Has(trace, "watchdog_arm")
        /\ First(trace, "active_update") < First(trace, "job_trigger")
        /\ First(trace, "watchdog_arm") < First(trace, "job_trigger")

\* C27: the session is recorded as active and the watchdog is armed before
\* job_trigger, and no triggered job is ever without a watchdog (pending, or
\* expired and about to complete the job) and a record of its session as the
\* active one.
C27_TriggeredJobGuarded ==
    /\ ArmedBeforeTrigger
    /\ Triggered =>
           /\ wdog # "idle"
           /\ ctx_active[ProcOf(curr)] = curr

----------------------------------------------------------------------------
(* Properties of the header emission *)

\* The kinds of the units emitted, in order.
Nals(out) == [i \in DOMAIN out |-> out[i].nal]

HeaderSuffixes ==
    {<<"sps", "pps", "slice">>, <<"pps", "slice">>, <<"slice">>}

\* A step of the loop of cedrus_enc_h264_job_configure_headers.
LoopStep == hd_pc = "case" /\ hd_pc' \in {"switch", "end"}

\* C28: every step of the emission loop of a job leaves the step where it
\* was or moves it forward, and when the emission ends the job has emitted
\* a suffix of SPS, PPS, slice header, ending with the only slice header,
\* and the step is Slice.
C28_SuffixAndStepForward ==
    [][LoopStep =>
         /\ hd_state'.step >= hd_state.step
         /\ hd_pc' = "end" =>
                /\ Nals(hd_out') \in HeaderSuffixes
                /\ hd_state'.step = CEDRUS_ENC_H264_STEP_SLICE]_vars

\* The slice headers of the job in hand carry the difference of the job's QP
\* to the initial QP of the PPS emitted last.
SliceQpAgainstLastPps ==
    \A i \in DOMAIN hd_out :
        hd_out[i].nal = "slice" =>
            /\ hd_out[i].pic_init_qp # -1
            /\ hd_out[i].slice_qp_delta =
                   hd_job.qp - hd_out[i].pic_init_qp

\* C29: qp_init changes only in job_prepare of a job whose step is below
\* Slice, and the slice_qp_delta of every slice header is the difference of
\* the job's QP to the qp_init written as pic_init_qp in the PPS emitted
\* last.
C29_QpInitFrozenAndShared ==
    [][/\ hd_state'.qp_init # hd_state.qp_init =>
              /\ hd_pc = "idle" /\ hd_pc' = "prepared"
              /\ hd_state'.step < CEDRUS_ENC_H264_STEP_SLICE
       /\ SliceQpAgainstLastPps']_vars

\* The second job of a stream emits only a slice header, with a QP that is
\* not the initial QP of the PPS of the first job.
C29_Witness ==
    /\ hd_pc = "running"
    /\ hd_hist.jobs = 2
    /\ Nals(hd_out) = <<"slice">>
    /\ hd_out[1].slice_qp_delta # 0
    /\ hd_state.qp_init = hd_hist.pic_init_qp

\* C30: in cedrus_enc_h264_job_configure_headers the insertion of the
\* emulation-prevention byte is disabled before the first bit of a header
\* is appended and while the bits of the SPS, PPS and slice header are
\* appended, and enabled when the function returns and when the encode is
\* triggered.
C30_EptbOffForHeadersOnAfter ==
    /\ hd_pc \in {"switch", "case", "end"} => "EPTB_DIS" \in hd_para0
    /\ \A i \in DOMAIN hd_out : hd_out[i].eptb_dis
    /\ hd_pc \in {"params", "running"} => "EPTB_DIS" \notin hd_para0

\* A triggered job that emitted SPS, PPS and slice header.
C30_Witness ==
    /\ hd_pc = "running"
    /\ Nals(hd_out) = <<"sps", "pps", "slice">>
    /\ \A i \in DOMAIN hd_out : hd_out[i].eptb_dis
    /\ "EPTB_DIS" \notin hd_para0

----------------------------------------------------------------------------
(* Properties of the H.265 bit skip *)

\* The position of the bitstream: the bits the skips of the job flushed.
RECURSIVE BitsSkipped(_)
BitsSkipped(ops) ==
    IF ops = <<>> THEN 0
    ELSE (IF Head(ops).op = "bits_skip" THEN Head(ops).n ELSE 0)
         + BitsSkipped(Tail(ops))

\* The number of trailing zero bits of a non-zero byte.
TrailingZeros(b) == CHOOSE t \in 0..7 : b % (2 ^ (t + 1)) = 2 ^ t

\* The position is 8 * d - (t + 1) for the job's offset d and byte b.
PositionAtStopBit ==
    LET end == BitsSkipped(h_last.ops)
              + TrailingZeros(h_last.in.padding) + 1
    IN  /\ end % 8 = 0
        /\ end \div 8 = h_last.in.data_byte_offset

\* The job reached the skip: no range or out-of-memory error before it.
ReachedSkip == h_last.n > 0 /\ h_last.ret \notin {"ERANGE", "ENOMEM"}

\* C31 as stated: for every offset d >= 1, a non-zero byte b before the
\* slice data leaves the position at 8 * d - (t + 1) bits, and a zero byte
\* fails the job with an invalid-argument error.
C31_SkipToStopBit ==
    (ReachedSkip /\ h_last.in.data_byte_offset >= 1) =>
        IF h_last.in.padding # 0
        THEN h_last.ret = Success /\ PositionAtStopBit
        ELSE h_last.ret = "EINVAL" /\ h_last.state = "ERROR"

\* C31, amended: the same for an offset d of at most 2^29, for which
\* (d - 1) * 8 fits the 32 bits of the skip count.
C31_SkipToStopBitInRange ==
    (/\ ReachedSkip
     /\ h_last.in.data_byte_offset >= 1
     /\ h_last.in.data_byte_offset <= 2 ^ 29) =>
        IF h_last.in.padding # 0
        THEN h_last.ret = Success /\ PositionAtStopBit
        ELSE h_last.ret = "EINVAL" /\ h_last.state = "ERROR"

\* A job with the slice data at offset 6 and four padding zeros: the skip
\* takes two writes for the first 40 bits and leaves the position at 43.
C31_Witness ==
    /\ h_last.n > 0
    /\ h_last.in.data_byte_offset = 6
    /\ h_last.in.padding = 80
    /\ h_last.ret = Success
    /\ BitsSkipped(h_last.ops) = 43

----------------------------------------------------------------------------
(* Properties of the interrupt handler's completion *)

\* The step of cedrus_irq that completes the job of the current session.
IrqFinishes == curr # NULL /\ last' = "irq_finish"

\* C32: when the interrupt handler completes a job, the interrupt of the
\* session's engine is disabled and cleared before cedrus_context_job_finish
\* runs the engine's job_finish and reports the completion to the m2m
\* framework.
C32_DisabledClearedBeforeFinish ==
    [][IrqFinishes =>
          LET e        == engine[curr]
              disabled == Place(trace', "irq_disable")
              cleared  == Place(trace', "irq_clear")
              reported == Place(trace', "m2m_done")
              finish   == Place(trace', "engine_job_finish")
          IN  /\ disabled > 0 /\ cleared > 0 /\ reported > 0
              /\ disabled < reported /\ cleared < reported
              /\ finish > 0 => (disabled < finish /\ cleared < finish)
              /\ ~irq_en'[e] /\ irq_stat'[e] = CEDRUS_IRQ_NONE
              /\ Len(finished'[njobs]) = Len(finished[njobs]) + 1]_vars

\* The interrupt handler completed the first job of the encoder session in
\* done state, the engine's job_finish after the disable and the clear.
C32_Witness ==
    /\ last = "irq_finish"
    /\ njobs = 1
    /\ finished[1] = <<"DONE">>
    /\ Has(trace, "engine_job_finish")
    /\ Place(trace, "irq_clear") < Place(trace, "engine_job_finish")
    /\ \A e \in Engines : ~irq_en[e]

----------------------------------------------------------------------------
(* Properties of the entry-point count of H.265 *)

\* The slice of the job declares entry points, and not as many as the
\* control of the entry-point offsets has elements.
CountMismatch(in) ==
    /\ in.num_entry_point_offsets # 0
    /\ in.num_entry_point_offsets # in.entry_point_offsets_count

\* C33: a job whose slice declares a non-zero number of entry points that
\* differs from the element count of the control fails with the range error,
\* having written no register and allocated no buffer; a job whose slice
\* declares none does not fail with the range error, whatever the count.
C33_CountMismatchIsRangeError ==
    [][h_last'.n > 0 =>
          /\ CountMismatch(h_last'.in) =>
                 /\ h_last'.ret = "ERANGE"
                 /\ h_last'.ops = <<>>
                 /\ h_mv' = h_mv
                 /\ h_last'.state = "ERROR" /\ ~h_last'.triggered
          /\ h_last'.in.num_entry_point_offsets = 0 =>
                 h_last'.ret # "ERANGE"]_vars

\* A job failed with the range error on a picture buffer that has no MV
\* column buffer yet, with an allocation that would have succeeded.
C33_Witness ==
    /\ h_last.n > 0
    /\ h_last.ret = "ERANGE"
    /\ h_last.ops = <<>>
    /\ ~h_mv /\ h_last.in.alloc
    /\ h_last.in.entry_point_offsets_count = 0

(***************************************************************************)
(* C34: the MV column buffer of a decoder picture buffer                   *)
(***************************************************************************)

\* A step that cleans up and sets up the picture buffers again.
PictureBuffersCleaned ==
    /\ f_last'.op = "reqbufs"
    /\ f_last'.queue = "picture"
    /\ f_last'.ret = Success

\* A step that dispatches a job.
JobDispatched == f_last'.op = "job_run" /\ f_mvlog'.out \in BufIds

\* The steps of the life of an MV column buffer, as the claim has them: a
\* job allocates only when the buffer has none, a failed allocation ends
\* the job with ENOMEM and leaves the buffer unallocated, and cleanup frees
\* the buffer when it is allocated and nothing when it is not.
MvColBufLifeStep ==
    /\ PictureBuffersCleaned =>
         \A i \in 1..f_bufs["picture"] :
            /\ f_mv[i] => f_mvlog'.cleanup[i] = "freed"
            /\ ~f_mv[i] => f_mvlog'.cleanup[i] \in {"nothing", "none"}
    /\ (JobDispatched /\ f_engine # "mpeg2") =>
         LET out == f_mvlog'.out
         IN  /\ f_mv[out] => /\ f_mvlog'.allocs = f_mvlog.allocs
                             /\ f_mv'[out]
                             /\ f_last'.ret = Success
             /\ f_last'.ret = "ENOMEM" => ~f_mv'[out] /\ ~f_job'
             /\ f_last'.ret = Success => f_mv'[out]

\* No engine change has left a picture buffer with the engine buffer of
\* another engine (or none): the buffers were set up by the current engine.
PictureBuffersOfEngine ==
    \A i \in 1..f_bufs["picture"] :
       f_ebuf[i] = cedrus_context_buffer_init(f_engine, "picture")

\* C34: for each decoder picture buffer the MV column buffer is allocated at
\* most once between buffer init and buffer cleanup, is reused by later
\* jobs, and is freed exactly once at cleanup; a failed allocation fails the
\* job with ENOMEM and leaves the buffer unallocated, so cleanup frees
\* nothing.
C34_MvColBufOncePerBuffer ==
    [][/\ \A i \in BufIds : f_mvlog'.allocs[i] <= 1
       /\ MvColBufLifeStep]_vars

\* The same, for the picture buffers that the current engine set up.
C34_MvColBufOncePerOwnBuffer ==
    [][PictureBuffersOfEngine =>
         /\ \A i \in BufIds : f_mvlog'.allocs[i] <= 1
         /\ MvColBufLifeStep]_vars

\* An H.264 or H.265 picture buffer whose MV column buffer was allocated by
\* a job is cleaned up.
C34_Witness ==
    /\ f_last.op = "reqbufs"
    /\ f_last.queue = "picture"
    /\ \E i \in BufIds : f_mvlog.cleanup[i] = "freed"

----------------------------------------------------------------------------
(* C35: the entropy coding of a slice against the last PPS *)

\* The entropy coding with which the engine encodes the slice of the job
\* that runs: the bit of VE_ENC_AVC_PARA0_REG.
SliceEntropy == IF "ENTROPY_CODING_CABAC" \in hd_para0 THEN 1 ELSE 0

\* C35: under any interleaving of entropy-mode or profile writes with job
\* dispatch, a write between job_prepare and job_configure included, the
\* entropy coding mode of each slice equals the entropy_coding_mode_flag of
\* the PPS emitted last.
C35_SliceEntropyOfLastPps ==
    hd_pc = "running" => SliceEntropy = hd_hist.pps_entropy

\* The same with every write landing while no job is between job_prepare
\* and the end of its header loop.
C35_SliceEntropyOfLastPpsNoRace ==
    (hd_pc = "running" /\ ~hd_hist.mid) =>
        SliceEntropy = hd_hist.pps_entropy

\* A job runs with CABAC after control writes between jobs, its PPS emitted
\* by the job itself.
C35_Witness ==
    /\ hd_pc = "running"
    /\ ~hd_hist.mid
    /\ hd_hist.writes > 0
    /\ hd_hist.jobs > 1
    /\ SliceEntropy = 1
    /\ hd_hist.pps_entropy = 1
    /\ \E i \in DOMAIN hd_out : hd_out[i].nal = "pps"

----------------------------------------------------------------------------
(* C36: the crop rectangle against the picture format *)

\* The stored crop rectangle lies inside the picture: left + width and
\* top + height within the picture, width and height at least 2.
CropInside ==
    /\ sel_crop.width.hi = 0 /\ sel_crop.height.hi = 0
    /\ sel_crop.width.lo >= 2 /\ sel_crop.height.lo >= 2
    /\ sel_crop.left + sel_crop.width.lo <= sel_fmt.width
    /\ sel_crop.top + sel_crop.height.lo <= sel_fmt.height

\* No offset of the SPS is the half of a difference that went below 0: none
\* exceeds the half of the picture's dimension.
CropOffsetsInRange ==
    LET sps == cedrus_enc_h264_job_configure_sps_crop(sel_fmt, sel_crop)
    IN  /\ ~U32Less(U32Of(sel_fmt.width \div 2), sps.left)
        /\ ~U32Less(U32Of(sel_fmt.width \div 2), sps.right)
        /\ ~U32Less(U32Of(sel_fmt.height \div 2), sps.top)
        /\ ~U32Less(U32Of(sel_fmt.height \div 2), sps.bottom)

\* C36: after any sequence of set-format and set-selection(CROP) calls on
\* the encoder the stored crop rectangle lies inside the picture format, so
\* the frame-crop offsets of the SPS never underflow.
C36_CropInsidePicture == CropInside /\ CropOffsetsInRange

\* The same for rectangles whose left and top are asked within the picture,
\* by two at least.
C36_CropInsidePictureFromInside ==
    [][(/\ sel_last'.op = "s_selection"
        /\ sel_crop'.left >= 0 /\ sel_crop'.left + 2 <= sel_fmt.width
        /\ sel_crop'.top >= 0 /\ sel_crop'.top + 2 <= sel_fmt.height)
       => (CropInside /\ CropOffsetsInRange)']_vars

\* A crop whose left is odd and whose width exceeds what is left was stored
\* rounded and clamped, and the SPS carries its offsets.
C36_Witness ==
    /\ sel_last.op = "sps"
    /\ sel_fmt.width = 32
    /\ sel_crop.left = 2
    /\ sel_crop.width = U32Of(30)
    /\ sel_last.sps.frame_cropping_flag = 1
    /\ sel_last.sps.left = U32Of(1)
    /\ sel_last.sps.right = U32Of(0)

----------------------------------------------------------------------------
(* C37: the power reference of a session *)

\* C37: across any sequence of start_streaming and stop_streaming calls on
\* the queues of a session, failed starts and calls on the picture queue
\* included, the power reference count of the session is 1 exactly while
\* the coded queue streams, 0 otherwise, and never negative.
C37_PowerBalanced ==
    /\ pm.usage = (IF streaming["coded"] THEN 1 ELSE 0)
    /\ pm.usage >= 0
    /\ pm.gets - pm.puts = pm.usage

\* A stop of the coded queue was called right after its start failed.
StoppedAfterFailedStart ==
    \E i \in 2..Len(s_hist) :
       /\ s_hist[i].op = "stop" /\ s_hist[i].queue = "coded"
       /\ FailedCodedStart(s_hist[i - 1])

\* The same for the sequences in which every stop of the coded queue
\* follows a start of it that succeeded.
C37_PowerBalancedStreamingStops ==
    ~StoppedAfterFailedStart => C37_PowerBalanced

\* The coded queue streams again after a failed start, a start, calls on the
\* picture queue and a stop.
C37_Witness ==
    /\ streaming["coded"]
    /\ pm.usage = 1
    /\ pm.gets >= 3
    /\ pm.puts = pm.gets - 1
    /\ ~StoppedAfterFailedStart
    /\ \E i \in DOMAIN s_hist : FailedCodedStart(s_hist[i])
    /\ \E i \in DOMAIN s_hist : s_hist[i].queue = "picture"

----------------------------------------------------------------------------
(* C38: the slots of the H.264 frame list *)

\* C38: for any sequence of jobs with DPBs of up to 16 entries, every slot
\* stored in a picture buffer and every index used to write the frame list
\* is below CEDRUS_DEC_H264_FRAME_NUM, and the first-fit search never reports
\* a full table.
C38_SlotsBelowFrameNum ==
    /\ \A b \in SlotBufs : k_bufs[b].position < CEDRUS_DEC_H264_FRAME_NUM
    /\ \A p \in k_last.used_dpbs : p < CEDRUS_DEC_H264_FRAME_NUM
    /\ k_last.position < CEDRUS_DEC_H264_FRAME_NUM
    /\ find_first_zero_bit(k_last.used_dpbs, CEDRUS_DEC_H264_FRAME_NUM)
           < CEDRUS_DEC_H264_FRAME_NUM

\* A job with 16 DPB entries in 16 slots took the seventeenth slot.
C38_Witness ==
    /\ k_last.entries = V4L2_H264_NUM_DPB_ENTRIES
    /\ Cardinality(k_last.used_dpbs) = V4L2_H264_NUM_DPB_ENTRIES
    /\ k_last.output < 0
    /\ k_last.position = V4L2_H264_NUM_DPB_ENTRIES

----------------------------------------------------------------------------
(* C39: the active-session pointer against the release of sessions *)

\* The active-session pointer of a processing unit designates a session
\* that was released and freed.
ActiveReleased(p) ==
    ctx_active[p] # NULL /\ open[ctx_active[p]] = "closed"

\* The release of a session begins: cedrus_context_cleanup calls
\* cedrus_proc_context_active_clear.
ReleaseBegins(c) == open[c] = "open" /\ open'[c] = "releasing"

\* C39: the active-session pointer never refers to a released session:
\* releasing a session clears the pointer when it designates that session
\* and leaves it untouched when it designates another one, so a spurious
\* interrupt never operates on a freed session.
C39_ActiveNeverReleased ==
    [][/\ \A c \in Contexts :
            ReleaseBegins(c) =>
               /\ ctx_active'[ProcOf(c)] # c
               /\ ctx_active[ProcOf(c)] # c => ctx_active' = ctx_active
               /\ \A p \in Procs : p # ProcOf(c) =>
                      ctx_active'[p] = ctx_active[p]
       /\ \A p \in Procs : ~ActiveReleased(p)']_vars

\* The part of the claim about the release itself.
C39_ReleaseClearsOwnPointer ==
    [][\A c \in Contexts :
          ReleaseBegins(c) =>
             /\ ctx_active'[ProcOf(c)] # c
             /\ ctx_active[ProcOf(c)] # c => ctx_active' = ctx_active
             /\ \A p \in Procs : p # ProcOf(c) =>
                    ctx_active'[p] = ctx_active[p]]_vars

\* A session that was active is released and its pointer cleared, while the
\* pointer of the other processing unit stays.
C39_Witness ==
    /\ last = "release"
    /\ \E c \in Contexts :
          /\ open[c] = "releasing"
          /\ ctx_active[ProcOf(c)] = NULL
          /\ Has(trace, "active_update")
    /\ \E p \in Procs : ctx_active[p] # NULL

----------------------------------------------------------------------------
(* C40: the first job of a stream of the H.264 encoder *)

\* The first job of the stream in hand has emitted its headers.
FirstJobEmitted ==
    hd_hist.jobs = 1 /\ hd_pc \in {"end", "params", "running"}

\* C40: after every stream start of the H.264 encoder, whatever a previous
\* stream left behind, the first job is an IDR frame with frame_num 0 and
\* pic_order_cnt_lsb 0 whose emitted headers are SPS, PPS and slice header,
\* in that order. Here the headers, emitted by the loop of
\* cedrus_enc_h264_job_configure_headers while controls can be written.
C40_FirstJobSpsPpsSlice ==
    FirstJobEmitted =>
        /\ hd_job.frame_type = "IDR"
        /\ Nals(hd_out) = <<"sps", "pps", "slice">>

\* The first job of a stream is in hand.
FirstJobOfStream ==
    enc_hist.jobs = 1 /\ enc_pc \in {"prepared", "running"}

\* The same with no control written between the preparation of the first
\* job and the end of its header emission: frame type, counters and headers
\* of the first job of every stream of a session.
C40_FirstJobAfterStartNoRace ==
    /\ FirstJobOfStream =>
           /\ enc_job.frame_type = "IDR"
           /\ enc_job.frame_num = 0
           /\ enc_job.pic_order_cnt_lsb = 0
    /\ FirstJobOfStream /\ enc_pc = "running" =>
           enc_out = <<"sps", "pps", "slice">>

\* The first job of the second stream of a session runs, the first stream
\* having encoded frames and controls having been written.
C40_Witness ==
    /\ FirstJobOfStream
    /\ enc_pc = "running"
    /\ enc_hist.starts = 2
    /\ enc_hist.writes > 0
    /\ enc_ctx.entropy_mode = "cabac"
====
